---------------------------- MODULE Spec2Model ----------------------------
(***************************************************************************)
(* A model of sshca (github.com/ratorx/sshca).                             *)
(*                                                                         *)
(*   SpecModifier : package sshd, the Modifier that queues Set/SetUnique   *)
(*                  edits of the sshd configuration and commits them with  *)
(*                  verify-then-revert.                                    *)
(*   SpecServer   : package ca, the Server whose SignPublicKey shells out  *)
(*                  to ssh-keygen under sshKeygenLock, served to several   *)
(*                  concurrent RPC calls, and the two ways it is built     *)
(*                  (RPCFlags.MakeClient, ServerCmd.Run), with             *)
(*                  GetCAPublicKey beside it; SpecServerLive adds the      *)
(*                  fairness of the mutex.                                 *)
(*   SpecPublicKey: package ca, the PublicKey built from a key file, sent  *)
(*                  over RPC, serialized and asked for its fingerprint.    *)
(*   SpecApply    : package sshd, one call of modification.Apply on bytes  *)
(*                  that are special in patterns.                          *)
(*   SpecSignHost : package main, the loop of SignHostCmd.Run over the     *)
(*                  host keys.                                             *)
(*   SpecSignArgs : package ca, the argument vector handed to ssh-keygen.  *)
(*   SpecLookup   : package sshd, Lookup in the output of sshd -T.         *)
(*   SpecTrust    : package main, TrustCmd.trustAsUserCA on a Modifier of  *)
(*                  its own.                                               *)
(*   SpecValidate : package sshd, Commit from its write on, with the file  *)
(*                  sshd -t reads.                                         *)
(*                                                                         *)
(* File contents are sequences of one-character strings, so that the       *)
(* line matching, trimming and joining of the code are computed and not    *)
(* assumed.                                                                *)
(***************************************************************************)
EXTENDS Integers, Sequences, FiniteSets, TLC

VARIABLES
    \* ---- package sshd -------------------------------------------------
    file,           \* bytes of the file at Modifier.ConfigPath
    writable,       \* whether ConfigPath can be opened for writing
    modifications,  \* Modifier.modifications
    commits,        \* number of Commit calls made so far
    ret,            \* what the last Commit returned ("none": no Commit has
                    \* returned since the last edit call)
    original,       \* observation: file bytes when that Commit was entered
    pending,        \* observation: modifications when that Commit was entered
    nWrites,        \* observation: ioutil.WriteFile calls made by that Commit
    nTests,         \* observation: testConfig calls made by that Commit
    sshdRun,        \* observation: what the testConfig of that Commit read
                    \* of the result of checkedRun, <<err, stderr>>
                    \* (<<>>: testConfig was not called)
    \* ---- package ca and the commands that build a Server ---------------
    privateKeyFile, \* what is at the CA private-key path: "missing", "dir"
                    \* or "file"
    publicKeyFile,  \* the file beside the CA private key, with ".pub"
                    \* added to its name: <<exists, bytes>>
    serverState,    \* "Uninitialized", "Ready" or "Failed" (construction
                    \* returned an error)
    origin,         \* who built the Server: "none", "local"
                    \* (RPCFlags.makeLocalClient) or "server" (ServerCmd.Run)
    skipFlag,       \* ServerCmd.SkipConfirmation, the --skip-confirmation flag
    SkipConfirmation, \* Server.SkipConfirmation
    sshKeygenLock,  \* Server.sshKeygenLock: 0 when free, else the call
                    \* that holds it
    stdin,          \* bytes typed on os.Stdin and not read yet
    stdinClosed,    \* os.Stdin is at end-of-stream once stdin is drained
    typed,          \* number of bytes typed so far
    pc,             \* where each SignPublicKey call stands
    confirm,        \* observation, per call: "none", "skipped", "prompted",
                    \* "confirmed" (a line was read) or "eof"
    tempDir,        \* per call: its temporary directory exists
    staged,         \* observation, per call: ioutil.TempDir made a directory
    launched,       \* observation, per call: ssh-keygen was started
    runErr,         \* observation, per call: what cmd.Run returned, "none"
                    \* (not returned yet), "nil", "LaunchError" or
                    \* "ExitError"
    keyFile,        \* observation, per call: the bytes ioutil.WriteFile
                    \* was given for keyPath (<<>> before)
    signErr,        \* per call: what SignPublicKey returned ("none" before)
    certificate,    \* per call: reply.Certificate was set
    PrivateKeyPath, \* Server.PrivateKeyPath
    PublicKey,      \* Server.PublicKey
    publicKeyPath,  \* the publicKeyPath argument NewServer was given
    newServerErr,   \* the error NewServer returned ("none" before)
    rpcFlags,       \* RPCFlags as Validate reads them:
                    \* <<Local, Remote, CAPrivateKeyPath>>
    clientErr,      \* the error MakeClient returned ("none" before)
    effects,        \* observation: what MakeClient did, of "pipe", "stat",
                    \* "read", "serve" and "dial"
    method,         \* per call: the RPC method, "SignPublicKey" or
                    \* "GetCAPublicKey" ("none" before the call)
    caReply,        \* per call: reply.CAPublicKey (<<>> is nil)
    clientKey,      \* the key the clients ask to have signed, without
                    \* the comment of the key line
    request,        \* per call: args.PublicKey as received (<<>> is nil)
    summary,        \* observation, per call: what fmt.Println(args) wrote,
                    \* "none", "summary" or "panic"
    accesses,       \* observation: what the program did with which path,
                    \* pairs <<operation, path>>
    \* ---- package ca, PublicKey ----------------------------------------
    kFile,          \* a key file: <<exists, bytes>>
    kPtr,           \* the *PublicKey NewPublicKey returned (<<>> is nil)
    kErr,           \* the error NewPublicKey returned ("none" before)
    kWire,          \* the PublicKey on the far side of the RPC boundary
    kOut,           \* observation: <<side, operation, bytes>> of the last
                    \* serialization
    kAcc,           \* observation: <<side, accessor, parsed at entry,
                    \* panicked>> of the last accessor call
    \* ---- package sshd, one call of modification.Apply ----------------
    applyIn,        \* the bytes Apply is given
    applyMod,       \* the modification applied (<<>> before the call)
    applyOut,       \* the bytes Apply returned (<<>> before the call)
    \* ---- package main, SignHostCmd.Run ------------------------------
    shPc,           \* where Run stands: "start", "loop" or "done"
    shKeys,         \* len(publicKeyPaths), the host keys findPublicKeys found
    shAttempts,     \* observation: what each generateCertificate call made
                    \* so far returned, in order
    shErr,          \* the variable err of Run: <<kind, errors>>
    shRet,          \* what Run returned (<<>> before it returns)
    \* ---- package ca, the argument vector of ssh-keygen ---------------
    saIn,           \* a SignArgs: <<Identity, CertificateType, Principals>>
    saOut,          \* what getSSHKeygenArgs returned (<<>> before the call)
    \* ---- package sshd, Lookup ---------------------------------------
    luIn,           \* <<what checkedRun(sshd -T -f configPath) returned,
                    \* the key asked for>>
    luOut,          \* what Lookup returned, <<err, values>> (<<>> before)
    \* ---- package main, TrustCmd.trustAsUserCA -----------------------
    trPc,           \* where trustAsUserCA stands: "start", "set", "commit",
                    \* "check" or "done"
    trErr,          \* the variable err of trustAsUserCA
    trRet,          \* what trustAsUserCA returned ("none" before)
    trPrinted,      \* observation: the "trusted public key ..." line was
                    \* printed
    \* ---- package sshd, Commit from its write on, with sshd ----------
    tcConfigPath,   \* Modifier.ConfigPath
    tcFiles,        \* what sshd makes of the file at each path
    tcPc,           \* where Commit stands: "write", "test", "revert", "done"
    tcOriginal,     \* what sshd makes of the bytes Commit read ("none"
                    \* before the write)
    tcRead,         \* observation: the path of the file sshd -t read
                    \* (<<>> before)
    tcRet           \* what Commit returned ("none" before)

modVars == <<file, writable, modifications, commits, ret, original,
             pending, nWrites, nTests, sshdRun>>

caVars == <<privateKeyFile, publicKeyFile, serverState, origin, skipFlag,
            SkipConfirmation, sshKeygenLock, stdin, stdinClosed, typed, pc,
            confirm, tempDir, staged, launched, runErr, keyFile, signErr,
            certificate, PrivateKeyPath, PublicKey, publicKeyPath,
            newServerErr, rpcFlags, clientErr, effects, method, caReply,
            clientKey, request, summary, accesses>>

pkVars == <<kFile, kPtr, kErr, kWire, kOut, kAcc>>

applyVars == <<applyIn, applyMod, applyOut>>

signHostVars == <<shPc, shKeys, shAttempts, shErr, shRet>>

signArgsVars == <<saIn, saOut>>

lookupVars == <<luIn, luOut>>

trustVars == <<trPc, trErr, trRet, trPrinted>>

validateVars == <<tcConfigPath, tcFiles, tcPc, tcOriginal, tcRead, tcRet>>

cmdVars == <<trustVars, validateVars>>

auxVars == <<applyVars, signHostVars, signArgsVars, lookupVars, cmdVars>>

vars == <<modVars, caVars, pkVars, auxVars>>

(***************************************************************************)
(* Bounds of the model.                                                    *)
(***************************************************************************)
MaxLines == 1
MaxMods == 2
MaxCommits == 2
MaxShortWrite == 1
NumCalls == 2
MaxInput == 2
MaxKeyLen == 4
MaxApplyLines == 2
MaxHostKeys == 3
MaxPrincipals == 2
MaxDumpLines == 2

(***************************************************************************)
(* Bytes.  NL is the line terminator, SP the key/value separator and HASH  *)
(* the comment mark of the sshd configuration format.                      *)
(***************************************************************************)
NL == "\n"
SP == " "
HASH == "#"

\* The key and the values the edit calls are made with.  The value "22"
\* begins with the value "2", as port 222 begins with 22.
Keys == {<<"P">>}
Values == {<<"2">>, <<"2", "2">>}

\* The lines initial files are made of: the key with each value, the key
\* commented out, and another key, "PA", that begins with the key "P" (as
\* HostKeyAlgorithms begins with HostKey).
ConfigLines ==
    {<<"P", SP, "2">>, <<"P", SP, "2", "2">>, <<HASH, "P", SP, "2">>,
     <<"P", "A", SP, "2">>}


(***************************************************************************)
(* Byte-slice helpers (package bytes).                                     *)
(***************************************************************************)
HasPrefix(b, p) ==
    /\ Len(p) <= Len(b)
    /\ SubSeq(b, 1, Len(p)) = p

\* Mutant of TrimRight: nothing is trimmed.
TrimRight_None(b) == b

\* bytes.TrimRight(b, "\n"): b without its trailing line terminators.
RECURSIVE TrimRight(_)
TrimRight(b) ==
    IF b # <<>> /\ b[Len(b)] = NL
    THEN TrimRight(SubSeq(b, 1, Len(b) - 1))
    ELSE b

\* bytes.Join(parts, sep).
RECURSIVE Join(_, _)
Join(parts, sep) ==
    IF parts = <<>> THEN <<>>
    ELSE IF Len(parts) = 1 THEN parts[1]
    ELSE parts[1] \o sep \o Join(Tail(parts), sep)

\* The lines of b as the (?m) flag of package regexp sees them: ^ matches
\* at the start of the text and after every NL, $ before every NL and at
\* the end of the text.  A text ending in NL has an empty last line.
RECURSIVE LinesOf(_)
LinesOf(b) ==
    IF \A i \in 1..Len(b) : b[i] # NL THEN <<b>>
    ELSE LET n == CHOOSE i \in 1..Len(b) :
                      /\ b[i] = NL
                      /\ \A j \in 1..(i - 1) : b[j] # NL
         IN <<SubSeq(b, 1, n - 1)>> \o LinesOf(SubSeq(b, n + 1, Len(b)))

(***************************************************************************)
(* Line patterns.  Both patterns of the Modifier have the shape            *)
(*     (?m)^#?<text>.*$                                                    *)
(* where <text> is the quoted key (SetUnique) or the quoted key, a space   *)
(* and the quoted value (Set).  A compiled pattern is represented by its   *)
(* <text>, pattern syntax: a backslash and a byte match that byte, an      *)
(* unquoted "." matches any byte of a line, any other byte matches itself. *)
(* "." does not match NL, so a match always spans exactly one line, from   *)
(* its first byte to its last.                                             *)
(***************************************************************************)
BACKSLASH == "\\"

\* The bytes regexp.QuoteMeta puts a backslash before.
Special ==
    {BACKSLASH, ".", "+", "*", "?", "(", ")", "|", "[", "]", "{", "}", "^",
     "$"}

\* Mutant of QuoteMeta: the text is embedded as it is.
QuoteMeta_Unquoted(s) == s

\* regexp.QuoteMeta(s): the pattern that matches exactly the bytes of s.
RECURSIVE QuoteMeta(_)
QuoteMeta(s) ==
    IF s = <<>> THEN <<>>
    ELSE (IF Head(s) \in Special THEN <<BACKSLASH, Head(s)>> ELSE <<Head(s)>>)
             \o QuoteMeta(Tail(s))

\* Set: fmt.Sprintf("(?m)^#?%s %s.*$", QuoteMeta(key), QuoteMeta(value))
SetRegexp(key, value) == QuoteMeta(key) \o <<SP>> \o QuoteMeta(value)

\* SetUnique: fmt.Sprintf("(?m)^#?%s.*$", QuoteMeta(key))
SetUniqueRegexp(key) == QuoteMeta(key)

\* Whether <text>.* matches the bytes of line from its first byte on.
RECURSIVE MatchesText(_, _)
MatchesText(re, line) ==
    IF re = <<>> THEN TRUE
    ELSE IF line = <<>> THEN FALSE
    ELSE IF Head(re) = BACKSLASH
         THEN /\ Len(re) >= 2
              /\ Head(line) = re[2]
              /\ MatchesText(SubSeq(re, 3, Len(re)), Tail(line))
    ELSE /\ Head(re) = "." \/ Head(re) = Head(line)
         /\ MatchesText(Tail(re), Tail(line))

\* Whether ^#?<text>.*$ matches the line.
LineMatches(re, line) ==
    \/ MatchesText(re, line)
    \/ /\ line # <<>>
       /\ line[1] = HASH
       /\ MatchesText(re, Tail(line))

\* Mutant of Match: the pattern never finds a line.
Match_Never(re, b) == FALSE

\* regexp.Regexp.Match(b)
Match(re, b) ==
    LET ls == LinesOf(b)
    IN \E i \in 1..Len(ls) : LineMatches(re, ls[i])

\* regexp.Regexp.ReplaceAllLiteral(b, repl): every match (a whole line)
\* is replaced by repl, everything else is copied.
ReplaceAllLiteral(re, b, repl) ==
    LET ls == LinesOf(b)
    IN Join([i \in 1..Len(ls) |->
                IF LineMatches(re, ls[i]) THEN repl ELSE ls[i]], <<NL>>)

(***************************************************************************)
(* type modification struct { LineRegexp; Key; Value }, as the tuple       *)
(* <<LineRegexp, Key, Value>>.                                             *)
(***************************************************************************)
LineRegexp(m) == m[1]
Key(m) == m[2]
Value(m) == m[3]

\* modification.Apply
Apply(m, b) ==
    LET toAppend == Join(<<Key(m), Value(m)>>, <<SP>>)
    IN IF Match(LineRegexp(m), b)
       THEN ReplaceAllLiteral(LineRegexp(m), b, toAppend)
       ELSE Join(<<TrimRight(b), toAppend>>, <<NL>>)

\* The modification Modifier.Set(key, value) appends.
SetModification(key, value) == <<SetRegexp(key, value), key, value>>

\* The modification Modifier.SetUnique(key, value) appends.
SetUniqueModification(key, value) == <<SetUniqueRegexp(key), key, value>>

\* The loop of Commit: final := original; for m in modifications
\* { final = m.Apply(final) }.
RECURSIVE ApplyAll(_, _)
ApplyAll(mods, b) ==
    IF mods = <<>> THEN b
    ELSE ApplyAll(Tail(mods), Apply(Head(mods), b))

(***************************************************************************)
(* The environment of the Modifier: the file system and sshd.              *)
(***************************************************************************)
\* ioutil.ReadFile(path): it fails, or returns the bytes of the file.
\* Results are pairs <<err, data>>.
ReadFile(content) == {<<TRUE, <<>>>>, <<FALSE, content>>}

Err(result) == result[1]
Data(result) == result[2]

Min(a, b) == IF a <= b THEN a ELSE b

\* ioutil.WriteFile(path, data, perm) on a file holding old.  It opens the
\* file with O_TRUNC and then writes: it either succeeds, or fails at the
\* open (the file keeps its bytes), or fails after the truncation with only
\* the first n bytes of data written (n up to MaxShortWrite here).  A file
\* that is not writable always fails at the open.
\* Results are pairs <<err, bytes the file holds afterwards>>.
WriteFile(old, data, canOpen) ==
    IF ~canOpen
    THEN {<<TRUE, old>>}
    ELSE {<<FALSE, data>>}
         \cup {<<TRUE, old>>}
         \cup {<<TRUE, SubSeq(data, 1, n)>> :
                   n \in 0..Min(MaxShortWrite, Len(data) - 1)}

\* var hostkeyFailCases: the two messages of sshd -t that mean a broken
\* host key although the exit status is 0 (named by their index).
hostkeyFailCases == {1, 2}

\* checkedRun(exec.Command("sshd", "-t")): pairs <<err, stderr>>, whether
\* the run returned an error (sshd could not be executed, or exited
\* non-zero) and which of the two messages its standard error holds.
CheckedRunResults == BOOLEAN \X (SUBSET hostkeyFailCases)

\* Mutant of testConfig: only the exit status of sshd is looked at.
testConfig_ExitOnly(run) == Err(run)

\* Modifier.testConfig, given what checkedRun returned: TRUE iff it returns
\* an error.
testConfig(run) ==
    IF Err(run) THEN TRUE
    ELSE \E failCase \in hostkeyFailCases : failCase \in Data(run)

\* What testConfig reads of the result of checkedRun: the error alone
\* when there is one (it returns before looking at stderr), else stderr up
\* to the first of hostkeyFailCases found in it (the loop returns there).
ReadOfRun(run) ==
    IF Err(run) THEN <<TRUE, {}>>
    ELSE IF Data(run) = {} THEN run
    ELSE <<FALSE, {CHOOSE c \in Data(run) : \A d \in Data(run) : c <= d}>>

(***************************************************************************)
(* Modifier.Commit, path by path.                                          *)
(***************************************************************************)
\* Mutant of Unchanged: the early return for an unchanged file is missing.
Unchanged_Never(final, orig) == FALSE

\* bytes.Equal(final, original): nothing to change.
Unchanged(final, orig) == final = orig

\* Mutant of RevertContent: the revert writes the rejected bytes again.
RevertContent_Final(orig, final) == final

\* What the revert after a failed verification writes back.
RevertContent(orig, final) == orig

\* Mutant of ModificationsOnError: an error return resets the list.
ModificationsOnError_Reset(mods) == <<>>

\* s.modifications after a Commit that returns an error: no error path
\* assigns it.
ModificationsOnError(mods) == mods

\* s.modifications after the successful application: s.modifications = nil.
ModificationsOnSuccess(mods) == <<>>

\* s.modifications after the early return for an unchanged file: that
\* return precedes the reset.
ModificationsOnNoChange(mods) == mods

\* Mutant of VerificationError: a failed revert is not reported.
VerificationError_CauseOnly(revertFailed) == "VerificationFailed"

\* What Commit returns after a failed verification: the cause alone when
\* the revert succeeded, else the text of the cause and of the revert
\* failure with "MANUAL FIX NEEDED", in one error.
VerificationError(revertFailed) ==
    IF revertFailed THEN "ManualFixNeeded" ELSE "VerificationFailed"

\* Mutant of ReadFailed: the file is opened for writing before the error
\* of the read is looked at.
ReadFailed_Truncated(f, mods) ==
    <<"ReadError", <<>>, ModificationsOnError(mods), 1, 0, <<>>>>

\* The return of Commit when ioutil.ReadFile failed: it is the first
\* statement after the read, before any other call.
ReadFailed(f, mods) ==
    <<"ReadError", f, ModificationsOnError(mods), 0, 0, <<>>>>

\* Every way one call of Commit can end, as the tuple
\*   <<ret, file, modifications, nWrites, nTests, sshdRun>>.
CommitResults(f, mods, canOpen) ==
    UNION {
    IF Err(rd)
    THEN {ReadFailed(f, mods)}
    ELSE
    LET orig == Data(rd)
        final == ApplyAll(mods, orig)
    IN IF Unchanged(final, orig)
       THEN {<<"nil", f, ModificationsOnNoChange(mods), 0, 0, <<>>>>}
       ELSE
       UNION {
         IF Err(w)
         THEN {<<"WriteError", Data(w), ModificationsOnError(mods), 1, 0,
                 <<>>>>}
         ELSE UNION {
           IF ~testConfig(run)
           THEN {<<"nil", Data(w), ModificationsOnSuccess(mods), 1, 1,
                   ReadOfRun(run)>>}
           ELSE {<<VerificationError(Err(r)),
                   Data(r), ModificationsOnError(mods), 2, 1,
                   ReadOfRun(run)>> :
                     r \in WriteFile(Data(w), RevertContent(orig, final),
                                     canOpen)}
           : run \in CheckedRunResults}
         : w \in WriteFile(f, final, canOpen)}
    : rd \in ReadFile(f)}

(***************************************************************************)
(* Initial configuration files.                                            *)
(***************************************************************************)
SeqsUpTo(S, n) == UNION {[1..k -> S] : k \in 0..n}

\* Up to MaxLines lines, with or without a final line terminator.
InitialFiles ==
    {Join(ls, <<NL>>) \o t :
        ls \in SeqsUpTo(ConfigLines, MaxLines), t \in {<<>>, <<NL>>}}

(***************************************************************************)
(* The Modifier as a state machine.                                        *)
(***************************************************************************)
\* The SignPublicKey calls in flight: net/rpc runs every request in a
\* goroutine of its own.
Calls == 1..NumCalls

\* No CA command runs beside the Modifier.
NoServer ==
    /\ privateKeyFile = "missing"
    /\ publicKeyFile = <<FALSE, <<>>>>
    /\ PrivateKeyPath = <<>>
    /\ PublicKey = <<>>
    /\ publicKeyPath = <<>>
    /\ newServerErr = "none"
    /\ rpcFlags = <<FALSE, <<>>, <<>>>>
    /\ clientErr = "none"
    /\ effects = {}
    /\ method = [c \in Calls |-> "none"]
    /\ caReply = [c \in Calls |-> <<>>]
    /\ clientKey = <<>>
    /\ request = [c \in Calls |-> <<>>]
    /\ summary = [c \in Calls |-> "none"]
    /\ accesses = {}
    /\ serverState = "Uninitialized"
    /\ origin = "none"
    /\ skipFlag = FALSE
    /\ SkipConfirmation = FALSE
    /\ sshKeygenLock = 0
    /\ stdin = <<>>
    /\ stdinClosed = FALSE
    /\ typed = 0
    /\ pc = [c \in Calls |-> "idle"]
    /\ confirm = [c \in Calls |-> "none"]
    /\ tempDir = [c \in Calls |-> FALSE]
    /\ staged = [c \in Calls |-> FALSE]
    /\ launched = [c \in Calls |-> FALSE]
    /\ runErr = [c \in Calls |-> "none"]
    /\ keyFile = [c \in Calls |-> <<>>]
    /\ signErr = [c \in Calls |-> "none"]
    /\ certificate = [c \in Calls |-> FALSE]

\* No PublicKey is being built.
NoPublicKey ==
    /\ kFile = <<FALSE, <<>>>>
    /\ kPtr = <<>>
    /\ kErr = "none"
    /\ kWire = <<>>
    /\ kOut = <<>>
    /\ kAcc = <<>>

\* No call of Apply is made on its own.
NoApply ==
    /\ applyIn = <<>>
    /\ applyMod = <<>>
    /\ applyOut = <<>>

\* No sign_host command runs.
NoSignHost ==
    /\ shPc = "start"
    /\ shKeys = 0
    /\ shAttempts = <<>>
    /\ shErr = <<"nil", <<>>>>
    /\ shRet = <<>>

\* No argument vector is built on its own.
NoSignArgs ==
    /\ saIn = <<>>
    /\ saOut = <<>>

\* No Lookup is made.
NoLookup ==
    /\ luIn = <<>>
    /\ luOut = <<>>

\* No trust command runs.
NoTrust ==
    /\ trPc = "start"
    /\ trErr = "nil"
    /\ trRet = "none"
    /\ trPrinted = FALSE

\* No Commit is followed with sshd.
NoValidate ==
    /\ tcConfigPath = <<>>
    /\ tcFiles = <<>>
    /\ tcPc = "write"
    /\ tcOriginal = "none"
    /\ tcRead = <<>>
    /\ tcRet = "none"

NoCmd == NoTrust /\ NoValidate

\* Nothing else runs beside the component under study.
NoAux == NoApply /\ NoSignHost /\ NoSignArgs /\ NoLookup /\ NoCmd

\* No Modifier runs beside the CA commands.
NoModifier ==
    /\ file = <<>>
    /\ writable = TRUE
    /\ modifications = <<>>
    /\ commits = 0
    /\ ret = "none"
    /\ original = <<>>
    /\ pending = <<>>
    /\ nWrites = 0
    /\ nTests = 0
    /\ sshdRun = <<>>

InitModifier ==
    /\ NoServer
    /\ NoPublicKey
    /\ NoAux
    /\ file \in InitialFiles
    /\ writable \in BOOLEAN
    /\ modifications = <<>>
    /\ commits = 0
    /\ ret = "none"
    /\ original = <<>>
    /\ pending = <<>>
    /\ nWrites = 0
    /\ nTests = 0
    /\ sshdRun = <<>>

\* The observations of the previous Commit are dropped by an edit call:
\* they describe the state that Commit returned in.
ForgetCommit ==
    /\ ret' = "none"
    /\ original' = <<>>
    /\ pending' = <<>>
    /\ nWrites' = 0
    /\ nTests' = 0
    /\ sshdRun' = <<>>

\* Mutant of Set: the edit is applied to the file at once.
Set_Eager ==
    \E key \in Keys, value \in Values :
        /\ Len(modifications) < MaxMods
        /\ modifications' = Append(modifications, SetModification(key, value))
        /\ file' = Apply(SetModification(key, value), file)
        /\ ForgetCommit
        /\ UNCHANGED <<writable, commits>>
        /\ UNCHANGED <<caVars, pkVars, auxVars>>

\* func (s *Modifier) Set(key, value string): only appends to
\* s.modifications.
Set ==
    \E key \in Keys, value \in Values :
        /\ Len(modifications) < MaxMods
        /\ modifications' = Append(modifications, SetModification(key, value))
        /\ ForgetCommit
        /\ UNCHANGED <<file, writable, commits>>
        /\ UNCHANGED <<caVars, pkVars, auxVars>>

\* func (s *Modifier) SetUnique(key, value string): only appends to
\* s.modifications.
SetUnique ==
    \E key \in Keys, value \in Values :
        /\ Len(modifications) < MaxMods
        /\ modifications' =
               Append(modifications, SetUniqueModification(key, value))
        /\ ForgetCommit
        /\ UNCHANGED <<file, writable, commits>>
        /\ UNCHANGED <<caVars, pkVars, auxVars>>

\* func (s *Modifier) Commit() error
Commit ==
    /\ commits < MaxCommits
    /\ \E res \in CommitResults(file, modifications, writable) :
          /\ ret' = res[1]
          /\ file' = res[2]
          /\ modifications' = res[3]
          /\ nWrites' = res[4]
          /\ nTests' = res[5]
          /\ sshdRun' = res[6]
    /\ original' = file
    /\ pending' = modifications
    /\ commits' = commits + 1
    /\ UNCHANGED writable
    /\ UNCHANGED <<caVars, pkVars, auxVars>>

NextModifier == Set \/ SetUnique \/ Commit

SpecModifier == InitModifier /\ [][NextModifier]_vars

(***************************************************************************)
(* Properties of the Modifier (checked under SpecModifier).                *)
(***************************************************************************)
\* A Commit has returned and no edit call was made since.
Returned == ret # "none"

\* The bytes Commit computes from what it read: every pending modification
\* applied, in order.
Final == ApplyAll(pending, original)

\* C1: when applying the pending modifications to the bytes read gives back
\* those bytes, Commit returns nil, calls neither WriteFile nor testConfig
\* and leaves the file as it was.
C1_CommitNoOp ==
    (Returned /\ ret # "ReadError" /\ Final = original)
        => /\ ret = "nil"
           /\ nWrites = 0
           /\ nTests = 0
           /\ file = original

\* C1 witness: a Commit of a queued edit that changes nothing returned nil
\* on a file that cannot be written.
C1_Witness ==
    /\ ret = "nil"
    /\ pending # <<>>
    /\ Final = original
    /\ ~writable
    /\ nWrites = 0

\* testConfig was called by the Commit that returned and it rejected
\* the configuration just written.
ValidatorRejected == Returned /\ nTests = 1 /\ ret # "nil"

\* C2 as stated: whenever the validator rejects the new configuration,
\* Commit returns an error and the file holds the bytes it held before.
C2_RestoredOnRejection ==
    ValidatorRejected
        => /\ ret \in {"VerificationFailed", "ManualFixNeeded"}
           /\ file = original

\* C2 amended: whenever the validator rejects the new configuration, Commit
\* returns an error, and the file holds the bytes it held before unless the
\* write that restores them fails (the MANUAL FIX NEEDED error).
C2_RestoredUnlessRevertFails ==
    ValidatorRejected
        => /\ ret \in {"VerificationFailed", "ManualFixNeeded"}
           /\ (ret = "VerificationFailed" => file = original)

\* C2 witness: a changed configuration was written, rejected and restored.
C2_Witness ==
    /\ ret = "VerificationFailed"
    /\ Final # original
    /\ nWrites = 2
    /\ file = original

\* C7 as stated: after every Commit that returns nil, by whichever path,
\* no modification is pending.
C7_ClearedOnSuccess ==
    ret = "nil" => modifications = <<>>

\* C8: after every Commit that returns an error, the pending modifications
\* are those pending when it was called, in the same order.
C8_KeptOnError ==
    (Returned /\ ret # "nil") => modifications = pending

\* C8 witness: a Commit of two different edits failed its verification.
C8_Witness ==
    /\ ret = "VerificationFailed"
    /\ Len(pending) = 2
    /\ pending[1] # pending[2]
    /\ modifications = pending

\* C9 as stated: whenever Commit returns, except with the failed-revert
\* error, the file holds the original bytes (an error, or nothing to
\* change) or the result of every pending modification (success).
C9_AllOrNothing ==
    (Returned /\ ret # "ManualFixNeeded")
        => IF ret = "nil" THEN file = Final ELSE file = original

\* The key of a configuration line, live or commented: the bytes before
\* the first space, without a leading comment mark.
RECURSIVE UpToSpace(_)
UpToSpace(l) ==
    IF l = <<>> \/ Head(l) = SP THEN <<>>
    ELSE <<Head(l)>> \o UpToSpace(Tail(l))

KeyOfLine(l) ==
    IF l # <<>> /\ Head(l) = HASH THEN UpToSpace(Tail(l)) ELSE UpToSpace(l)

\* The lines of b that use the key, in file order.
LinesForKey(b, key) ==
    SelectSeq(LinesOf(b), LAMBDA l : KeyOfLine(l) = key)

\* C10 as stated: on a file whose only line for key K is the live line
\* "K V1", a committed Set(K, V2) with V2 # V1 leaves the two lines "K V1"
\* and "K V2" for K, and a committed SetUnique(K, V2) leaves the one line
\* "K V2".
C10_SetKeepsSetUniqueReplaces ==
    \A k \in Keys, v1 \in Values, v2 \in Values :
        ( /\ ret = "nil"
          /\ Len(pending) = 1
          /\ v1 # v2
          /\ LinesForKey(original, k) = <<k \o <<SP>> \o v1>> )
        => /\ pending[1] = SetModification(k, v2)
                => LinesForKey(file, k) =
                       <<k \o <<SP>> \o v1, k \o <<SP>> \o v2>>
           /\ pending[1] = SetUniqueModification(k, v2)
                => LinesForKey(file, k) = <<k \o <<SP>> \o v2>>

\* The value of a configuration line: the bytes after its first space.
RECURSIVE AfterSpace(_)
AfterSpace(l) ==
    IF l = <<>> THEN <<>>
    ELSE IF Head(l) = SP THEN Tail(l)
    ELSE AfterSpace(Tail(l))

\* The lines of b as a set.
LineSet(b) == {LinesOf(b)[i] : i \in 1..Len(LinesOf(b))}

\* C11 as stated: when a single Set(key, value) is committed, every line of
\* the original file that uses the key with a different value is still a
\* line of the file afterwards.
C11_SetKeepsOtherValues ==
    \A k \in Keys, v \in Values :
        (ret = "nil" /\ pending = <<SetModification(k, v)>>)
            => \A l \in LineSet(original) :
                   (KeyOfLine(l) = k /\ AfterSpace(l) # v)
                       => l \in LineSet(file)

\* Whether m is a modification appended by Set (its pattern holds the
\* value) or by SetUnique (its pattern is the key alone).
IsSet(m) == m = SetModification(Key(m), Value(m))

IsSetUnique(m) == m = SetUniqueModification(Key(m), Value(m))

\* The line "key value" a modification writes.
LineOf(m) == Key(m) \o <<SP>> \o Value(m)

\* C21 as stated: a Commit that returns nil leaves the pending
\* modifications applied in queued order, each to the output of the one
\* before; when only SetUnique calls for one key were queued, every line
\* for that key holds the value of the last call; and when only Set calls
\* were queued, the line of every one of them is in the file.
C21_QueueOrder ==
    (ret = "nil" /\ pending # <<>>)
        => /\ file = ApplyAll(pending, original)
           /\ (\A i \in 1..Len(pending) :
                   /\ IsSetUnique(pending[i])
                   /\ Key(pending[i]) = Key(pending[1]))
                => /\ LinesForKey(file, Key(pending[1])) # <<>>
                   /\ \A l \in LineSet(file) :
                          KeyOfLine(l) = Key(pending[1])
                              => l = LineOf(pending[Len(pending)])
           /\ (\A i \in 1..Len(pending) : IsSet(pending[i]))
                => \A i \in 1..Len(pending) :
                       LineOf(pending[i]) \in LineSet(file)

\* C22: when the validator run returns an error (sshd could not be run or
\* exited non-zero), and also when it exits zero with either of the two
\* host-key messages on its standard error, Commit returns an error and
\* makes the write that restores the original content.
C22_ValidationFailures ==
    (Returned /\ sshdRun # <<>>)
        => /\ Err(sshdRun)
                => /\ ret \in {"VerificationFailed", "ManualFixNeeded"}
                   /\ nWrites = 2
           /\ \A failCase \in hostkeyFailCases :
                  (~Err(sshdRun) /\ failCase \in Data(sshdRun))
                      => /\ ret \in {"VerificationFailed", "ManualFixNeeded"}
                         /\ nWrites = 2

\* C22 witness: sshd exited zero with the second host-key message, and
\* Commit restored the original content and returned the error.
C22_Witness ==
    /\ sshdRun = <<FALSE, {2}>>
    /\ ret = "VerificationFailed"
    /\ nWrites = 2
    /\ Final # original
    /\ file = original

\* C23: Commit returns the combined error flagged MANUAL FIX NEEDED only
\* after the validator rejected the configuration and the write of the
\* original content was made and failed, and whenever a Commit whose
\* validator rejected the configuration leaves anything but the original
\* content in the file, that is the error it returns.
C23_ManualFixOnly ==
    /\ ret = "ManualFixNeeded"
           => /\ nTests = 1
              /\ nWrites = 2
              /\ sshdRun # <<>>
              /\ (Err(sshdRun) \/ Data(sshdRun) # {})
    /\ (ValidatorRejected /\ file # original) => ret = "ManualFixNeeded"
    /\ (Returned /\ ret \notin {"nil", "ManualFixNeeded"})
           => ~(nTests = 1 /\ file = Final /\ Final # original)

\* C23 witness: the validator rejected the new configuration, the revert
\* could not write, and the file is left holding the rejected content.
C23_Witness ==
    /\ ret = "ManualFixNeeded"
    /\ nWrites = 2
    /\ Final # original
    /\ file = Final

\* C30 as stated: every pending modification gives the same bytes applied
\* twice as applied once, and after a Commit that wrote the file and
\* returned nil, applying the same modifications again to the file changes
\* nothing (so that a second Commit of them would return before any write
\* and any validator call).
C30_Idempotent ==
    /\ \A i \in 1..Len(pending) :
           LET once == Apply(pending[i], original)
           IN  Apply(pending[i], once) = once
    /\ (ret = "nil" /\ nWrites = 1) => ApplyAll(pending, file) = file

\* C30 amended: every pending modification gives the same bytes applied
\* twice as applied once, and after a Commit of a single modification that
\* wrote the file and returned nil, applying that modification again to
\* the file changes nothing.
C30_IdempotentSingleEdit ==
    /\ \A i \in 1..Len(pending) :
           LET once == Apply(pending[i], original)
           IN  Apply(pending[i], once) = once
    /\ (ret = "nil" /\ nWrites = 1 /\ Len(pending) = 1)
           => ApplyAll(pending, file) = file

\* C30 witness: a Commit of one modification changed the file and
\* returned nil, and the file already is what the modification makes of it.
C30_Witness ==
    /\ ret = "nil"
    /\ nWrites = 1
    /\ Len(pending) = 1
    /\ file # original
    /\ Apply(pending[1], file) = file

\* C31: a step that is not a Commit call (a Set or a SetUnique) leaves the
\* bytes of the file and its permissions as they were and makes no write
\* and no validator run; it appends one modification.  The bytes of the
\* file change only in a step that is a Commit call.
C31_EditsOnlyQueue ==
    [][/\ commits' = commits
           => /\ file' = file
              /\ writable' = writable
              /\ nWrites' = 0
              /\ nTests' = 0
              /\ sshdRun' = <<>>
              /\ Len(modifications') = Len(modifications) + 1
              /\ SubSeq(modifications', 1, Len(modifications)) = modifications
       /\ file' # file => commits' = commits + 1]_vars

\* C31 witness: after the creation of the Modifier a Set and a SetUnique
\* were called, no Commit was, and the file is one of the initial files.
C31_Witness ==
    /\ commits = 0
    /\ Len(modifications) = 2
    /\ \E key \in Keys, v \in Values, w \in Values :
           modifications
               = <<SetModification(key, v), SetUniqueModification(key, w)>>
    /\ file \in InitialFiles
    /\ file # <<>>
    /\ nWrites = 0
    /\ nTests = 0

\* C32: a Commit that returned the read error made no write and no
\* validator run, left the file holding what it held and left the pending
\* modifications as they were.
C32_ReadErrorFirst ==
    ret = "ReadError"
        => /\ nWrites = 0
           /\ nTests = 0
           /\ sshdRun = <<>>
           /\ file = original
           /\ modifications = pending

\* C32 witness: a Commit of a queued edit that would change the file
\* returned the read error.
C32_Witness ==
    /\ ret = "ReadError"
    /\ pending # <<>>
    /\ Final # original
    /\ writable
    /\ file = original

(***************************************************************************)
(* modification.Apply on its own, on keys, values and lines that hold      *)
(* bytes that are special in patterns.                                     *)
(***************************************************************************)
\* A key and a key with a special byte; a value with a special byte (as
\* the address 0.0.0.1:22) and a value without.
ApplyKeys == {<<"L">>, <<"L", ".">>}
ApplyValues == {<<"0", ".", "1">>, <<"0">>}

\* Lines that differ from "L 0.1" and "L. 0" in the special byte only, with
\* the lines themselves and a commented one.
ApplyLines ==
    {<<"L", SP, "0", ".", "1">>, <<"L", SP, "0", "x", "1">>,
     <<HASH, "L", SP, "0", ".", "1">>, <<"L", ".", SP, "0">>,
     <<"L", "x", SP, "0">>, <<"L", SP, "1">>}

\* Up to MaxApplyLines lines, followed by no, one or two line terminators.
ApplyFiles ==
    {Join(ls, <<NL>>) \o t :
        ls \in SeqsUpTo(ApplyLines, MaxApplyLines),
        t \in {<<>>, <<NL>>, <<NL, NL>>}}

InitApplyInput ==
    /\ applyIn \in ApplyFiles
    /\ applyMod = <<>>
    /\ applyOut = <<>>

ApplyFrame ==
    UNCHANGED <<modVars, caVars, pkVars, signHostVars, signArgsVars,
                lookupVars, cmdVars>>

\* m.Apply(b) for the modification Set(key, value) builds.
ApplySet ==
    \E key \in ApplyKeys, value \in ApplyValues :
        /\ applyMod = <<>>
        /\ applyMod' = SetModification(key, value)
        /\ applyOut' = Apply(applyMod', applyIn)
        /\ UNCHANGED applyIn
        /\ ApplyFrame

\* m.Apply(b) for the modification SetUnique(key, value) builds.
ApplySetUnique ==
    \E key \in ApplyKeys, value \in ApplyValues :
        /\ applyMod = <<>>
        /\ applyMod' = SetUniqueModification(key, value)
        /\ applyOut' = Apply(applyMod', applyIn)
        /\ UNCHANGED applyIn
        /\ ApplyFrame

NextApply == ApplySet \/ ApplySetUnique

InitApply ==
    /\ InitApplyInput
    /\ NoModifier /\ NoServer /\ NoPublicKey
    /\ NoSignHost /\ NoSignArgs /\ NoLookup
    /\ NoCmd

SpecApply == InitApply /\ [][NextApply]_vars

(***************************************************************************)
(* Properties of Apply (checked under SpecApply).                          *)
(***************************************************************************)
\* The line without its comment mark, if it has one.
Uncommented(l) == IF l # <<>> /\ Head(l) = HASH THEN Tail(l) ELSE l

\* The bytes the pattern of a modification is built from: the key, and
\* for Set a space and the value.
TextOf(m) == IF IsSet(m) THEN LineOf(m) ELSE Key(m)

\* C24: a line is matched only if it begins, after an optional comment
\* mark, with the very bytes of the key (and, for Set, a space and the
\* value): every non-empty line of the input that does not is in the
\* output at the same place, whatever special bytes key and value hold.
C24_SpecialBytesMatchThemselves ==
    applyMod # <<>>
        => \A i \in 1..Len(LinesOf(applyIn)) :
               LET l == LinesOf(applyIn)[i]
               IN (l # <<>> /\ ~HasPrefix(Uncommented(l), TextOf(applyMod)))
                      => /\ i <= Len(LinesOf(applyOut))
                         /\ LinesOf(applyOut)[i] = l

\* C24 witness: Set("L", "0.1") was applied to a file with the line
\* "L 0x1", and the line is still there beside the new one.
C24_Witness ==
    /\ applyMod = SetModification(<<"L">>, <<"0", ".", "1">>)
    /\ <<"L", SP, "0", "x", "1">> \in LineSet(applyIn)
    /\ <<"L", SP, "0", "x", "1">> \in LineSet(applyOut)
    /\ <<"L", SP, "0", ".", "1">> \in LineSet(applyOut)

\* The bytes of b before its trailing line terminators.
Stem(b) ==
    SubSeq(b, 1, CHOOSE n \in 0..Len(b) :
                     /\ n = 0 \/ b[n] # NL
                     /\ \A j \in (n + 1)..Len(b) : b[j] = NL)

\* C29: when the pattern of the modification matches a line of the input,
\* live or commented, the output has the same number of lines, every
\* matched line is "key value" and every other line is as it was; when it
\* matches none, the output is the input without its trailing line
\* terminators, one line terminator and "key value".
C29_ReplaceOrAppend ==
    applyMod # <<>>
        => LET ls == LinesOf(applyIn)
               out == LinesOf(applyOut)
               matched == {i \in 1..Len(ls) :
                              LineMatches(LineRegexp(applyMod), ls[i])}
           IN IF matched # {}
              THEN /\ Len(out) = Len(ls)
                   /\ \A i \in 1..Len(ls) :
                          out[i] = IF i \in matched THEN LineOf(applyMod)
                                   ELSE ls[i]
              ELSE applyOut = Stem(applyIn) \o <<NL>> \o LineOf(applyMod)

\* C29 witness: the commented line "#L 0.1" was replaced by "L 0.1" and
\* the other line of the file was kept.
C29_Witness ==
    /\ applyMod = SetModification(<<"L">>, <<"0", ".", "1">>)
    /\ applyIn = <<HASH, "L", SP, "0", ".", "1", NL, "L", SP, "1", NL>>
    /\ applyOut = <<"L", SP, "0", ".", "1", NL, "L", SP, "1", NL>>

\* C39 as stated: when the modification SetUnique(key, value) builds is
\* applied, every non-empty line of the input whose key is not the given
\* key is in the output at the same place.
C39_SetUniqueKeepsOtherKeys ==
    (applyMod # <<>> /\ ~IsSet(applyMod))
        => \A i \in 1..Len(LinesOf(applyIn)) :
               LET l == LinesOf(applyIn)[i]
               IN (l # <<>> /\ KeyOfLine(l) # Key(applyMod))
                      => /\ i <= Len(LinesOf(applyOut))
                         /\ LinesOf(applyOut)[i] = l

(***************************************************************************)
(* Package main: SignHostCmd.Run.  An error value is the pair              *)
(* <<kind, errors>>: <<"nil", <<>>>> is nil, kind "multi" is a             *)
(* *multierror.Error with its list of errors, any other kind is a plain    *)
(* error with an empty list.                                               *)
(***************************************************************************)
nil == <<"nil", <<>>>>

\* What generateCertificate can return: nil, or the failure of one of its
\* four steps (the identity, reading the key, the RPC, writing the
\* certificate).
generateCertificateResults ==
    {"nil", "IdentityError", "ReadError", "SignError", "WriteError"}

\* Mutant of multierrorAppend: the list is started anew each time.
multierrorAppend_Last(err, certErr) == <<"multi", <<certErr>>>>

\* multierror.Append(err, certErr): a nil err starts a list, a
\* *multierror.Error gets certErr appended, any other error becomes the
\* first entry of a new list.
multierrorAppend(err, certErr) ==
    IF err = nil THEN <<"multi", <<certErr>>>>
    ELSE IF err[1] = "multi" THEN <<"multi", Append(err[2], certErr)>>
    ELSE <<"multi", <<err[1], certErr>>>>

InitSignHostCmd ==
    /\ shPc = "start"
    /\ shKeys = 0
    /\ shAttempts = <<>>
    /\ shErr = nil
    /\ shRet = <<>>

SignHostFrame ==
    UNCHANGED <<modVars, caVars, pkVars, applyVars, signArgsVars, lookupVars,
                cmdVars>>

\* Run up to its loop: makeClient, getPrincipals and findPublicKeys each
\* return from Run with their error, or go on; findPublicKeys leaves err
\* nil and the list of host keys.
SignHostCmdRun ==
    /\ shPc = "start"
    /\ \/ \E e \in {"ClientError", "PrincipalsError", "FindError"} :
              /\ shRet' = <<e, <<>>>>
              /\ shPc' = "done"
              /\ UNCHANGED <<shKeys, shErr>>
       \/ \E n \in 0..MaxHostKeys :
              /\ shKeys' = n
              /\ shErr' = nil
              /\ shPc' = "loop"
              /\ UNCHANGED shRet
    /\ UNCHANGED shAttempts
    /\ SignHostFrame

\* One round of the loop: generateCertificate for the next key; its error,
\* if any, is printed and appended to err.
generateCertificate ==
    /\ shPc = "loop"
    /\ Len(shAttempts) < shKeys
    /\ \E certErr \in generateCertificateResults :
          /\ shAttempts' = Append(shAttempts, certErr)
          /\ shErr' = IF certErr # "nil"
                      THEN multierrorAppend(shErr, certErr)
                      ELSE shErr
    /\ UNCHANGED <<shPc, shKeys, shRet>>
    /\ SignHostFrame

\* The end of the loop: return err.
SignHostCmdReturn ==
    /\ shPc = "loop"
    /\ Len(shAttempts) = shKeys
    /\ shRet' = shErr
    /\ shPc' = "done"
    /\ UNCHANGED <<shKeys, shAttempts, shErr>>
    /\ SignHostFrame

NextSignHost == SignHostCmdRun \/ generateCertificate \/ SignHostCmdReturn

InitSignHost ==
    /\ InitSignHostCmd
    /\ NoModifier /\ NoServer /\ NoPublicKey
    /\ NoApply /\ NoSignArgs /\ NoLookup
    /\ NoCmd

SpecSignHost == InitSignHost /\ [][NextSignHost]_vars

(***************************************************************************)
(* Properties of SignHostCmd.Run (checked under SpecSignHost).             *)
(***************************************************************************)
\* The failures among the attempts, in order.
Failures(attempts) == SelectSeq(attempts, LAMBDA r : r # "nil")

\* C25: when Run returns from its loop, generateCertificate was called for
\* every host key found, whatever the earlier calls returned; the error
\* returned is nil exactly when every call returned nil, and otherwise it
\* holds the error of every failed call, in order.
C25_EveryKeyAttempted ==
    (shPc = "done" /\ shRet[1] \in {"nil", "multi"})
        => /\ Len(shAttempts) = shKeys
           /\ shRet = nil <=> \A i \in 1..shKeys : shAttempts[i] = "nil"
           /\ shRet # nil => shRet = <<"multi", Failures(shAttempts)>>

\* C25 witness: of three host keys the first and the last failed, the
\* second was signed all the same, and both failures are returned.
C25_Witness ==
    /\ shPc = "done"
    /\ shAttempts = <<"SignError", "nil", "WriteError">>
    /\ shRet = <<"multi", <<"SignError", "WriteError">>>>

(***************************************************************************)
(* Package ca: PublicKey.  A PublicKey is the pair <<key, Data>>; key is   *)
(* <<>> while the ssh.PublicKey is nil.  A *PublicKey is <<>> when nil.    *)
(* Of a key file only the shape matters: "B" stands for a word that is the *)
(* base64 of a well-formed key blob, "x" for any other byte.               *)
(***************************************************************************)
KeyBytes == {"B", "x", SP, NL, HASH}

\* A missing file, or the bytes of an existing one.
KeyFiles ==
    {<<FALSE, <<>>>>} \cup {<<TRUE, b>> : b \in SeqsUpTo(KeyBytes, MaxKeyLen)}

ParsedKey(p) == p[1]
DataOf(p) == p[2]

RECURSIVE TrimLeftSpace(_)
TrimLeftSpace(l) ==
    IF l # <<>> /\ Head(l) = SP THEN TrimLeftSpace(Tail(l)) ELSE l

\* The words of a line: the maximal runs of bytes other than the space.
RECURSIVE Fields(_)
Fields(l) ==
    LET t == TrimLeftSpace(l)
        w == UpToSpace(t)
    IN IF t = <<>> THEN <<>>
       ELSE <<w>> \o Fields(SubSeq(t, Len(w) + 1, Len(t)))

\* ssh.parseAuthorizedKey on what follows the first word of a line: its
\* first word must decode to a key blob.  <<>> when it does not.
KeyOfFields(f, i) ==
    IF Len(f) >= i /\ f[i] = <<"B">> THEN f[i] ELSE <<>>

\* One round of the loop of ssh.ParseAuthorizedKey: blank lines and comment
\* lines are skipped; the key is looked for after the first word and then,
\* taking the first word for an options field, after the second.
KeyOfKeyLine(line) ==
    LET f == Fields(line)
    IN IF f = <<>> \/ Head(f[1]) = HASH THEN <<>>
       ELSE IF KeyOfFields(f, 2) # <<>> THEN KeyOfFields(f, 2)
       ELSE KeyOfFields(f, 3)

\* ssh.ParseAuthorizedKey(in): <<err, key>>, the key of the first line that
\* has one, "ssh: no key found" when no line has.
RECURSIVE FirstKey(_)
FirstKey(ls) ==
    IF ls = <<>> THEN <<TRUE, <<>>>>
    ELSE IF KeyOfKeyLine(Head(ls)) # <<>>
         THEN <<FALSE, KeyOfKeyLine(Head(ls))>>
         ELSE FirstKey(Tail(ls))

ParseAuthorizedKey(in) == FirstKey(LinesOf(in))

\* func (p *PublicKey) parse() error: <<err, p afterwards>>.
parse(p) ==
    IF ParsedKey(p) # <<>> THEN <<FALSE, p>>
    ELSE LET r == ParseAuthorizedKey(DataOf(p))
         IN IF Err(r) THEN <<TRUE, p>>
            ELSE <<FALSE, <<Data(r), DataOf(p)>>>>

\* The *PublicKey that NewPublicKey returns beside a parse error:
\* return publicKey, publicKey.parse()
NewPublicKeyOnError(p) == p

\* func NewPublicKey(filename string) (*PublicKey, error):
\* <<*PublicKey, error>> with the error "nil", "ReadError" or "ParseError".
NewPublicKey(f) ==
    IF ~f[1] THEN <<<<>>, "ReadError">>
    ELSE LET r == parse(<<<<>>, f[2]>>)
         IN IF Err(r) THEN <<NewPublicKeyOnError(Data(r)), "ParseError">>
            ELSE <<Data(r), "nil">>

Marshal_Reencoded(p) == <<"x", SP>> \o ParsedKey(p) \o <<NL>>

\* func (p *PublicKey) Marshal() []byte: a copy of p.Data.
Marshal(p) == DataOf(p)

\* encoding/gob sends the exported fields of the struct: Data alone.
GobEncode(p) == DataOf(p)

\* The receiver of net/rpc builds the PublicKey from what gob carried:
\* key is nil.
GobDecode(w) == <<<<>>, w>>

\* func (p *PublicKey) mustParse() and the accessors Fingerprint and Type
\* built on it: <<panicked, p afterwards>>.
mustParse(p) == parse(p)

\* A key file, and no PublicKey built from it yet.
InitKeyFile ==
    /\ kFile \in KeyFiles
    /\ kPtr = <<>>
    /\ kErr = "none"
    /\ kWire = <<>>
    /\ kOut = <<>>
    /\ kAcc = <<>>

PKFrame == UNCHANGED <<modVars, caVars, auxVars>>

\* A caller builds a PublicKey from the file.
NewPublicKeyCall ==
    /\ kErr = "none"
    /\ kPtr' = NewPublicKey(kFile)[1]
    /\ kErr' = NewPublicKey(kFile)[2]
    /\ UNCHANGED <<kFile, kWire, kOut, kAcc>>
    /\ PKFrame

\* The PublicKey the caller holds crosses the RPC boundary, in SignArgs or
\* in PublicKeyReply.
Transmit ==
    /\ kPtr # <<>>
    /\ kWire = <<>>
    /\ kWire' = GobDecode(GobEncode(kPtr))
    /\ UNCHANGED <<kFile, kPtr, kErr, kOut, kAcc>>
    /\ PKFrame

\* Marshal, or the bytes WriteFile hands to ioutil.WriteFile, on the
\* caller's side ("local") or on the receiver's ("remote").
Serialize ==
    /\ \E side \in {"local", "remote"}, op \in {"Marshal", "WriteFile"} :
          LET p == IF side = "local" THEN kPtr ELSE kWire
          IN /\ p # <<>>
             /\ kOut' = <<side, op,
                          IF op = "Marshal" THEN Marshal(p) ELSE DataOf(p)>>
    /\ UNCHANGED <<kFile, kPtr, kErr, kWire, kAcc>>
    /\ PKFrame

\* Fingerprint or Type is called on either side; kAcc keeps whether the
\* key was parsed when the accessor was entered and whether it panicked.
Accessor ==
    /\ \E side \in {"local", "remote"}, fn \in {"Fingerprint", "Type"} :
          LET p == IF side = "local" THEN kPtr ELSE kWire
              r == mustParse(p)
          IN /\ p # <<>>
             /\ kAcc' = <<side, fn, ParsedKey(p) # <<>>, Err(r)>>
             /\ IF side = "local"
                THEN kPtr' = Data(r) /\ UNCHANGED kWire
                ELSE kWire' = Data(r) /\ UNCHANGED kPtr
    /\ UNCHANGED <<kFile, kErr, kOut>>
    /\ PKFrame

NextPublicKey == NewPublicKeyCall \/ Transmit \/ Serialize \/ Accessor

InitPublicKey == InitKeyFile /\ NoModifier /\ NoServer /\ NoAux

SpecPublicKey == InitPublicKey /\ [][NextPublicKey]_vars

\* C13: the PublicKey built from a valid key file serializes to the bytes
\* of the file, on the side that built it and on the side that received it.
C13_SerializeIsVerbatim ==
    (kErr = "nil" /\ kOut # <<>>) => kOut[3] = kFile[2]

\* C13 witness: a key file that ends with a line terminator was parsed,
\* sent, and marshalled by the receiver.
C13_Witness ==
    /\ kErr = "nil"
    /\ kOut # <<>>
    /\ kOut[1] = "remote"
    /\ kOut[2] = "Marshal"
    /\ Len(kFile[2]) = MaxKeyLen
    /\ kFile[2][MaxKeyLen] = NL

\* C14 as stated: when the bytes are not a key line, NewPublicKey returns
\* an error and no PublicKey.
C14_NoValueOnError ==
    (kErr # "none" /\ Err(ParseAuthorizedKey(kFile[2])))
        => kErr # "nil" /\ kPtr = <<>>

\* C15 as stated: whenever Fingerprint or Type is entered, on either side
\* of the RPC boundary, the key is parsed already, and the accessor does
\* not fail.
C15_AccessorSeesParsedKey ==
    kAcc # <<>> => kAcc[3] /\ ~kAcc[4]

(***************************************************************************)
(* Package ca: the Server, and the two commands that construct one.        *)
(***************************************************************************)
\* Bytes the operator can type.
Chars == {"y", NL}

\* Paths are sequences of name parts; <<>> is the empty string.  The CA
\* private key is looked for at <<"ca">>.
PrivateKeyPaths == {<<>>, <<"ca">>}

\* The public-key path flag: empty, or a path where there is no file.
PublicKeyPaths == {<<>>, <<"other">>}

\* The --remote flag: empty, or an address.
Remotes == {<<>>, <<"addr">>}

\* The file beside the CA private key: none, one without a key line, a key.
CAKeyFiles ==
    {<<FALSE, <<>>>>, <<TRUE, <<"x">>>>, <<TRUE, <<"x", SP, "B", NL>>>>}

\* os.Stat(path): "missing", "dir" or "file".
Stat(path) == IF path = <<"ca">> THEN privateKeyFile ELSE "missing"

\* The file ioutil.ReadFile finds at path.
FileAt(path) ==
    IF path = <<"ca", ".pub">> THEN publicKeyFile ELSE <<FALSE, <<>>>>

IsDir_Never(info) == FALSE

\* privateKeyInfo.IsDir()
IsDir(info) == info = "dir"

\* if publicKeyPath == "" { publicKeyPath = privateKeyPath + ".pub" }
InferPublicKeyPath(privateKeyPath, givenPath) ==
    IF givenPath = <<>> THEN privateKeyPath \o <<".pub">> ELSE givenPath

\* func NewServer(privateKeyPath, publicKeyPath, skipConfirmation):
\* <<error, PrivateKeyPath, PublicKey, SkipConfirmation>>, the zero Server
\* beside an error.
NewServer(privateKeyPath, givenPath, skipConfirmation) ==
    IF Stat(privateKeyPath) = "missing"
    THEN <<"StatError", <<>>, <<>>, FALSE>>
    ELSE IF IsDir(Stat(privateKeyPath))
    THEN <<"IsDirError", <<>>, <<>>, FALSE>>
    ELSE LET pk == NewPublicKey(
                       FileAt(InferPublicKeyPath(privateKeyPath, givenPath)))
         IN IF pk[2] # "nil"
            THEN <<"PublicKeyError", <<>>, <<>>, FALSE>>
            ELSE <<"nil", privateKeyPath, pk[1], skipConfirmation>>

\* The paths NewServer touches: os.Stat of the private key and, once that
\* has passed, ioutil.ReadFile of the public key (in NewPublicKey).
NewServerAccesses(privateKeyPath, givenPath) ==
    {<<"stat", privateKeyPath>>}
        \cup (IF Stat(privateKeyPath) = "missing"
                    \/ IsDir(Stat(privateKeyPath))
              THEN {}
              ELSE {<<"read", InferPublicKeyPath(privateKeyPath, givenPath)>>})

Validate_Skipped(r) == FALSE

\* func (r *RPCFlags) Validate() error, on <<Local, Remote,
\* CAPrivateKeyPath>>: TRUE when it returns an error.
Validate(r) ==
    IF r[1] /\ r[2] # <<>> THEN TRUE
    ELSE IF ~r[1] /\ r[2] = <<>> THEN TRUE
    ELSE IF r[1] /\ r[3] = <<>> THEN TRUE
    ELSE FALSE

LocalSkipConfirmation_Off == FALSE

\* The skipConfirmation argument makeLocalClient passes to ca.NewServer.
LocalSkipConfirmation == TRUE

LockFree_Always(l) == TRUE

\* sync.Mutex: Lock returns only when no one holds the mutex.
LockFree(l) == l = 0

Locked_Released(c) == 0

\* The mutex once Lock has returned in call c; the Unlock is deferred.
Locked(c) == c

Unlock_Kept(l) == l

\* The deferred ca.sshKeygenLock.Unlock().
Unlock(l) == 0

AfterConfirm_Ignore(err) == "tempdir"

\* if err := ca.confirmRequest(); err != nil { return ... }
AfterConfirm(err) == IF err THEN "return" ELSE "tempdir"

\* Positions of a call between Lock() and the return.
InCall == {"summary", "confirm", "reading", "tempdir", "writekey", "keygen",
           "running", "readcert"}

\* The PublicKey.Data a SignPublicKey request can carry: a key line, or
\* bytes that are none.  The requests of one run carry the same key.
RequestKeys == {<<"x", SP, "B">>, <<"x">>}

\* The CA side before any command has run.
InitCA ==
    /\ privateKeyFile \in {"missing", "dir", "file"}
    /\ publicKeyFile \in CAKeyFiles
    /\ PrivateKeyPath = <<>>
    /\ PublicKey = <<>>
    /\ publicKeyPath = <<>>
    /\ newServerErr = "none"
    /\ rpcFlags = <<FALSE, <<>>, <<>>>>
    /\ clientErr = "none"
    /\ effects = {}
    /\ method = [c \in Calls |-> "none"]
    /\ caReply = [c \in Calls |-> <<>>]
    /\ clientKey \in RequestKeys
    /\ request = [c \in Calls |-> <<>>]
    /\ summary = [c \in Calls |-> "none"]
    /\ accesses = {}
    /\ serverState = "Uninitialized"
    /\ origin = "none"
    /\ skipFlag = FALSE
    /\ SkipConfirmation = FALSE
    /\ sshKeygenLock = 0
    /\ stdin = <<>>
    /\ stdinClosed = FALSE
    /\ typed = 0
    /\ pc = [c \in Calls |-> "idle"]
    /\ confirm = [c \in Calls |-> "none"]
    /\ tempDir = [c \in Calls |-> FALSE]
    /\ staged = [c \in Calls |-> FALSE]
    /\ launched = [c \in Calls |-> FALSE]
    /\ runErr = [c \in Calls |-> "none"]
    /\ keyFile = [c \in Calls |-> <<>>]
    /\ signErr = [c \in Calls |-> "none"]
    /\ certificate = [c \in Calls |-> FALSE]

\* What the construction of a Server leaves alone.
ConstructionFrame ==
    /\ UNCHANGED <<privateKeyFile, publicKeyFile, sshKeygenLock, stdin,
                   stdinClosed, typed, pc, confirm, tempDir, staged, launched,
                   runErr, keyFile, signErr, certificate, method, caReply,
                   request, summary, clientKey>>
    /\ UNCHANGED <<modVars, pkVars, auxVars>>

\* The Server fields and the state of the service after NewServer returned
\* srv; the service is Ready when it is being served.
Construct(srv, served) ==
    /\ newServerErr' = srv[1]
    /\ PrivateKeyPath' = srv[2]
    /\ PublicKey' = srv[3]
    /\ SkipConfirmation' = srv[4]
    /\ serverState' = IF srv[1] = "nil" /\ served THEN "Ready" ELSE "Failed"

\* func (r *RPCFlags) makeLocalClient(): the Server is built with
\* confirmation skipped and served over one end of a net.Pipe.
makeLocalClient(r, givenPath) ==
    /\ serverState = "Uninitialized"
    /\ LET srv == NewServer(r[3], givenPath, LocalSkipConfirmation)
       IN /\ Construct(srv, TRUE)
          /\ clientErr' = IF srv[1] = "nil" THEN "nil" ELSE "NewServerError"
          /\ effects' = {"pipe", "stat"}
                \cup (IF srv[1] \in {"nil", "PublicKeyError"}
                      THEN {"read"} ELSE {})
                \cup (IF srv[1] = "nil" THEN {"serve"} ELSE {})
    /\ accesses' = accesses \cup NewServerAccesses(r[3], givenPath)
    /\ publicKeyPath' = givenPath
    /\ origin' = "local"
    /\ UNCHANGED skipFlag

\* func (r *RPCFlags) makeRemoteClient(): rpc.Dial("tcp", r.Remote).
makeRemoteClient(r) ==
    /\ \E dialed \in BOOLEAN :
          clientErr' = IF dialed THEN "nil" ELSE "DialError"
    /\ effects' = {"dial"}
    /\ origin' = "remote"
    /\ UNCHANGED <<serverState, skipFlag, SkipConfirmation, PrivateKeyPath,
                   PublicKey, publicKeyPath, newServerErr, accesses>>

\* func (r *RPCFlags) MakeClient() (*ca.Client, error)
MakeClient ==
    /\ origin = "none"
    /\ clientErr = "none"
    /\ \E local \in BOOLEAN, remote \in Remotes, private \in PrivateKeyPaths,
          givenPath \in PublicKeyPaths :
          LET r == <<local, remote, private>>
          IN /\ rpcFlags' = r
             /\ IF Validate(r)
                THEN /\ clientErr' = "ValidateError"
                     /\ UNCHANGED <<effects, origin, serverState, skipFlag,
                                    SkipConfirmation, PrivateKeyPath,
                                    PublicKey, publicKeyPath, newServerErr,
                                    accesses>>
                ELSE IF r[1]
                THEN makeLocalClient(r, givenPath)
                ELSE makeRemoteClient(r)
    /\ ConstructionFrame

\* func (s ServerCmd) Run(): the Server is built with the command's
\* --skip-confirmation flag and served on a TCP listener.
ServerCmdRun ==
    /\ serverState = "Uninitialized"
    /\ origin = "none"
    /\ clientErr = "none"
    /\ \E flag \in BOOLEAN, listening \in BOOLEAN,
          givenPath \in PublicKeyPaths :
          /\ skipFlag' = flag
          /\ publicKeyPath' = givenPath
          /\ Construct(NewServer(<<"ca">>, givenPath, flag), listening)
          /\ accesses' = accesses \cup NewServerAccesses(<<"ca">>, givenPath)
    /\ origin' = "server"
    /\ UNCHANGED <<rpcFlags, clientErr, effects>>
    /\ ConstructionFrame

\* The operator types one byte on the terminal.
Type ==
    /\ serverState = "Ready"
    /\ ~stdinClosed
    /\ typed < MaxInput
    /\ \E ch \in Chars : stdin' = Append(stdin, ch)
    /\ typed' = typed + 1
    /\ UNCHANGED <<privateKeyFile, publicKeyFile, serverState, origin,
                   skipFlag, SkipConfirmation, sshKeygenLock, stdinClosed, pc,
                   confirm, tempDir, staged, launched, runErr, keyFile,
                   signErr, certificate, PrivateKeyPath, PublicKey,
                   publicKeyPath, newServerErr, rpcFlags, clientErr, effects,
                   method, caReply, request, summary, clientKey, accesses>>
    /\ UNCHANGED <<modVars, pkVars, auxVars>>

\* The operator's input ends (Ctrl-D, or standard input is not a terminal).
CloseStdin ==
    /\ serverState = "Ready"
    /\ ~stdinClosed
    /\ stdinClosed' = TRUE
    /\ UNCHANGED <<privateKeyFile, publicKeyFile, serverState, origin,
                   skipFlag, SkipConfirmation, sshKeygenLock, stdin, typed,
                   pc, confirm, tempDir, staged, launched, runErr, keyFile,
                   signErr, certificate, PrivateKeyPath, PublicKey,
                   publicKeyPath, newServerErr, rpcFlags, clientErr, effects,
                   method, caReply, request, summary, clientKey, accesses>>
    /\ UNCHANGED <<modVars, pkVars, auxVars>>

\* What no step of a call touches.
CallFrame ==
    /\ UNCHANGED <<privateKeyFile, publicKeyFile, serverState, origin,
                   skipFlag, SkipConfirmation, stdinClosed, typed,
                   PrivateKeyPath, PublicKey, publicKeyPath, newServerErr,
                   rpcFlags, clientErr, effects, clientKey>>
    /\ UNCHANGED <<modVars, pkVars, auxVars>>

\* The directory ioutil.TempDir makes for call c, and the two files in it.
TempDirPath(c) == <<"tmp", c>>

keyPath_PrivateKey(c) == PrivateKeyPath

\* keyPath := filepath.Join(tempDir, "key.pub")
keyPath(c) == TempDirPath(c) \o <<"key.pub">>

\* filepath.Join(tempDir, "key-cert.pub")
certPath(c) == TempDirPath(c) \o <<"key-cert.pub">>

\* What the deferred calls of a return touch.
ReturnAccesses(c) ==
    IF tempDir[c] THEN {<<"remove", TempDirPath(c)>>} ELSE {}

RemoveAll_Kept(exists) == exists

\* defer os.RemoveAll(tempDir): whether the directory still exists.
RemoveAll(exists) == FALSE

\* SignPublicKey returns r in call c: the deferred os.RemoveAll(tempDir),
\* when it was registered, and the deferred Unlock run.
Return(c, r) ==
    /\ signErr' = [signErr EXCEPT ![c] = r]
    /\ pc' = [pc EXCEPT ![c] = "done"]
    /\ tempDir' = [tempDir EXCEPT ![c] = RemoveAll(tempDir[c])]
    /\ sshKeygenLock' = Unlock(sshKeygenLock)

\* The call goes on to position p.
Goto(c, p) ==
    /\ pc' = [pc EXCEPT ![c] = p]
    /\ UNCHANGED signErr

\* Calls are numbered in the order in which the requests arrive.
NextToArrive(c) ==
    pc[c] = "idle" /\ \A d \in Calls : d < c => pc[d] # "idle"

\* The PublicKey of the SignArgs client c sends: the key of the run, with
\* the name of the client as the comment of the key line.
SentKey(c) == <<<<>>, clientKey \o <<SP, ToString(c)>>>>

\* A SignPublicKey request reaches the Server: net/rpc decodes SignArgs
\* and starts the method in a goroutine.
Call(c) ==
    /\ serverState = "Ready"
    /\ NextToArrive(c)
    /\ Goto(c, "lock")
    /\ method' = [method EXCEPT ![c] = "SignPublicKey"]
    /\ request' = [request EXCEPT ![c] = GobDecode(GobEncode(SentKey(c)))]
    /\ UNCHANGED <<sshKeygenLock, stdin, confirm, tempDir, staged, launched,
                   runErr, keyFile, certificate, summary, caReply, accesses>>
    /\ CallFrame

GetCAPublicKeyReply_Trimmed(pk) == <<ParsedKey(pk), TrimRight(DataOf(pk))>>

\* reply.CAPublicKey = ca.PublicKey
GetCAPublicKeyReply(pk) == pk

\* Mutant of GetCAPublicKey: the call waits for sshKeygenLock.
GetCAPublicKey_Locked(c) ==
    /\ serverState = "Ready"
    /\ NextToArrive(c)
    /\ LockFree(sshKeygenLock)
    /\ pc' = [pc EXCEPT ![c] = "replied"]
    /\ method' = [method EXCEPT ![c] = "GetCAPublicKey"]
    /\ caReply' = [caReply EXCEPT ![c] = GetCAPublicKeyReply(PublicKey)]
    /\ UNCHANGED <<sshKeygenLock, stdin, confirm, tempDir, staged, launched,
                   runErr, keyFile, certificate, signErr, request, summary,
                   accesses>>
    /\ CallFrame

\* func (ca Server) GetCAPublicKey(args struct{}, reply *PublicKeyReply):
\* the whole call; it takes no lock.
GetCAPublicKey(c) ==
    /\ serverState = "Ready"
    /\ NextToArrive(c)
    /\ pc' = [pc EXCEPT ![c] = "replied"]
    /\ method' = [method EXCEPT ![c] = "GetCAPublicKey"]
    /\ caReply' = [caReply EXCEPT ![c] = GetCAPublicKeyReply(PublicKey)]
    /\ UNCHANGED <<sshKeygenLock, stdin, confirm, tempDir, staged, launched,
                   runErr, keyFile, certificate, signErr, request, summary,
                   accesses>>
    /\ CallFrame

\* ca.sshKeygenLock.Lock(); defer ca.sshKeygenLock.Unlock()
Lock(c) ==
    /\ pc[c] = "lock"
    /\ LockFree(sshKeygenLock)
    /\ sshKeygenLock' = Locked(c)
    /\ Goto(c, "summary")
    /\ UNCHANGED <<stdin, confirm, tempDir, staged, launched, runErr, keyFile,
                   certificate>>
    /\ UNCHANGED <<method, request, summary, caReply, accesses>>
    /\ CallFrame

\* fmt.Println(args): SignArgs.String calls Type and Fingerprint, which
\* parse the key received; when they panic, fmt recovers the panic and
\* writes a PANIC note in place of the summary, and the call goes on.
Summary(c) ==
    /\ pc[c] = "summary"
    /\ Goto(c, "confirm")
    /\ LET r == mustParse(request[c])
       IN /\ summary' = [summary EXCEPT
                            ![c] = IF Err(r) THEN "panic" ELSE "summary"]
          /\ request' = [request EXCEPT ![c] = Data(r)]
    /\ UNCHANGED <<sshKeygenLock, stdin, confirm, tempDir, staged, launched,
                   runErr, keyFile, certificate, method, caReply, accesses>>
    /\ CallFrame

\* Mutant of confirmRequest: the prompt is printed and nothing is read.
confirmRequest_NoWait(c) ==
    /\ pc[c] = "confirm"
    /\ confirm' = [confirm EXCEPT
                      ![c] = IF SkipConfirmation THEN "skipped"
                             ELSE "prompted"]
    /\ Goto(c, AfterConfirm(FALSE))
    /\ UNCHANGED <<sshKeygenLock, stdin, tempDir, staged, launched, runErr,
                   keyFile, certificate>>
    /\ UNCHANGED <<method, request, summary, caReply, accesses>>
    /\ CallFrame

\* confirmRequest up to the read: nil at once when SkipConfirmation, else
\* the prompt is printed and a bufio.Reader on os.Stdin is made.
confirmRequest(c) ==
    /\ pc[c] = "confirm"
    /\ IF SkipConfirmation
       THEN /\ confirm' = [confirm EXCEPT ![c] = "skipped"]
            /\ Goto(c, AfterConfirm(FALSE))
       ELSE /\ confirm' = [confirm EXCEPT ![c] = "prompted"]
            /\ Goto(c, "reading")
    /\ UNCHANGED <<sshKeygenLock, stdin, tempDir, staged, launched, runErr,
                   keyFile, certificate>>
    /\ UNCHANGED <<method, request, summary, caReply, accesses>>
    /\ CallFrame

\* reader.ReadString('\n'): one read of os.Stdin takes some of the bytes
\* that are there; the call goes on once a '\n' is among those read.
ReadString(c) ==
    /\ pc[c] = "reading"
    /\ stdin # <<>>
    /\ \E n \in 1..Len(stdin) :
          /\ stdin' = SubSeq(stdin, n + 1, Len(stdin))
          /\ IF \E i \in 1..n : stdin[i] = NL
             THEN /\ confirm' = [confirm EXCEPT ![c] = "confirmed"]
                  /\ Goto(c, AfterConfirm(FALSE))
             ELSE UNCHANGED <<confirm, pc, signErr>>
    /\ UNCHANGED <<sshKeygenLock, tempDir, staged, launched, runErr, keyFile,
                   certificate>>
    /\ UNCHANGED <<method, request, summary, caReply, accesses>>
    /\ CallFrame

\* reader.ReadString('\n') meets the end of os.Stdin: err is io.EOF.
ReadEOF(c) ==
    /\ pc[c] = "reading"
    /\ stdin = <<>>
    /\ stdinClosed
    /\ confirm' = [confirm EXCEPT ![c] = "eof"]
    /\ IF AfterConfirm(TRUE) = "return"
       THEN Return(c, "ConfirmError")
       ELSE Goto(c, AfterConfirm(TRUE)) /\ UNCHANGED <<tempDir,
                                                       sshKeygenLock>>
    /\ accesses' = accesses
           \cup (IF AfterConfirm(TRUE) = "return" THEN ReturnAccesses(c)
                 ELSE {})
    /\ UNCHANGED <<stdin, staged, launched, runErr, keyFile, certificate>>
    /\ UNCHANGED <<method, request, summary, caReply>>
    /\ CallFrame

\* ioutil.TempDir("", "sshca."); defer os.RemoveAll(tempDir)
TempDir(c) ==
    /\ pc[c] = "tempdir"
    /\ \E err \in BOOLEAN :
          IF err
          THEN /\ Return(c, "TempDirError")
               /\ accesses' = accesses \cup ReturnAccesses(c)
               /\ UNCHANGED staged
          ELSE /\ tempDir' = [tempDir EXCEPT ![c] = TRUE]
               /\ accesses' = accesses \cup {<<"mkdir", TempDirPath(c)>>}
               /\ staged' = [staged EXCEPT ![c] = TRUE]
               /\ Goto(c, "writekey")
               /\ UNCHANGED sshKeygenLock
    /\ UNCHANGED <<stdin, confirm, launched, runErr, keyFile, certificate>>
    /\ UNCHANGED <<method, request, summary, caReply>>
    /\ CallFrame

\* Mutant of WriteFileData: the key of the CA is staged.
WriteFileData_CAPublicKey(p) == DataOf(PublicKey)

\* func (p *PublicKey) WriteFile(filename, perm): the bytes it gives to
\* ioutil.WriteFile, p.Data.
WriteFileData(p) == DataOf(p)

\* args.PublicKey.WriteFile(keyPath, 0o600)
WriteKey(c) ==
    /\ pc[c] = "writekey"
    /\ \E err \in BOOLEAN :
          /\ IF err
             THEN Return(c, "WriteKeyError")
             ELSE Goto(c, "keygen") /\ UNCHANGED <<tempDir, sshKeygenLock>>
          /\ accesses' = accesses \cup {<<"write", keyPath(c)>>}
                 \cup (IF err THEN ReturnAccesses(c) ELSE {})
    /\ keyFile' = [keyFile EXCEPT ![c] = WriteFileData(request[c])]
    /\ UNCHANGED <<stdin, confirm, staged, launched, runErr, certificate>>
    /\ UNCHANGED <<method, request, summary, caReply>>
    /\ CallFrame

\* Mutant of AfterKeygen: the error of runSSHKeygen is not looked at.
AfterKeygen_Ignore(err) == "readcert"

\* err = runSSHKeygen(sshKeygenArgs); if err != nil { return err }
AfterKeygen(err) == IF err THEN "return" ELSE "readcert"

\* runSSHKeygen up to the start of the subprocess: cmd.Run fails at once
\* when ssh-keygen cannot be started.
runSSHKeygen(c) ==
    /\ pc[c] = "keygen"
    /\ \E err \in BOOLEAN :
          /\ IF err
             THEN /\ runErr' = [runErr EXCEPT ![c] = "LaunchError"]
                  /\ IF AfterKeygen(TRUE) = "return"
                     THEN Return(c, "KeygenError")
                     ELSE /\ Goto(c, AfterKeygen(TRUE))
                          /\ UNCHANGED <<tempDir, sshKeygenLock>>
                  /\ UNCHANGED launched
             ELSE /\ launched' = [launched EXCEPT ![c] = TRUE]
                  /\ Goto(c, "running")
                  /\ UNCHANGED <<tempDir, sshKeygenLock, runErr>>
          /\ accesses' = accesses
                 \cup {<<"arg", PrivateKeyPath>>, <<"arg", keyPath(c)>>}
                 \cup (IF err /\ AfterKeygen(TRUE) = "return"
                       THEN ReturnAccesses(c) ELSE {})
    /\ UNCHANGED <<stdin, confirm, staged, keyFile, certificate>>
    /\ UNCHANGED <<method, request, summary, caReply>>
    /\ CallFrame

\* The ssh-keygen subprocess exits and cmd.Run returns.
KeygenExit(c) ==
    /\ pc[c] = "running"
    /\ \E err \in BOOLEAN :
          /\ runErr' = [runErr EXCEPT
                           ![c] = IF err THEN "ExitError" ELSE "nil"]
          /\ IF AfterKeygen(err) = "return"
             THEN Return(c, "KeygenError")
             ELSE /\ Goto(c, AfterKeygen(err))
                  /\ UNCHANGED <<tempDir, sshKeygenLock>>
          /\ accesses' = accesses
                 \cup (IF AfterKeygen(err) = "return"
                       THEN ReturnAccesses(c) ELSE {})
    /\ UNCHANGED <<stdin, confirm, staged, launched, keyFile, certificate>>
    /\ UNCHANGED <<method, request, summary, caReply>>
    /\ CallFrame

\* NewPublicKey(key-cert.pub); reply.Certificate = certificate; return nil
ReadCertificate(c) ==
    /\ pc[c] = "readcert"
    /\ \E err \in BOOLEAN :
          IF err
          THEN Return(c, "CertError") /\ UNCHANGED certificate
          ELSE /\ certificate' = [certificate EXCEPT ![c] = TRUE]
               /\ Return(c, "nil")
    /\ accesses' = accesses \cup {<<"read", certPath(c)>>}
           \cup ReturnAccesses(c)
    /\ UNCHANGED <<stdin, confirm, staged, launched, runErr, keyFile>>
    /\ UNCHANGED <<method, request, summary, caReply>>
    /\ CallFrame

\* func (ca *Server) SignPublicKey(args SignArgs, reply *SignReply) error,
\* one step of one call.
SignPublicKey ==
    \E c \in Calls :
        \/ Call(c)
        \/ Lock(c)
        \/ Summary(c)
        \/ confirmRequest(c)
        \/ ReadString(c)
        \/ ReadEOF(c)
        \/ TempDir(c)
        \/ WriteKey(c)
        \/ runSSHKeygen(c)
        \/ KeygenExit(c)
        \/ ReadCertificate(c)

NextServer ==
    \/ MakeClient
    \/ ServerCmdRun
    \/ Type
    \/ CloseStdin
    \/ SignPublicKey
    \/ \E c \in Calls : GetCAPublicKey(c)

InitServer == InitCA /\ NoModifier /\ NoPublicKey /\ NoAux

SpecServer == InitServer /\ [][NextServer]_vars

\* sync.Mutex: while the mutex is free and goroutines wait in Lock, one of
\* them gets it.
SpecServerLive == SpecServer /\ WF_vars(\E c \in Calls : Lock(c))

(***************************************************************************)
(* Properties of the Server (checked under SpecServer).                    *)
(***************************************************************************)
\* The calls whose ssh-keygen subprocess is in progress.
Running == {c \in Calls : pc[c] = "running"}

\* C3: however many SignPublicKey calls are in flight on one Server, at most
\* one ssh-keygen subprocess is in progress at any time.
C3_OneSubprocess == Cardinality(Running) <= 1

\* C3 witness: one call's subprocess is in progress while another call
\* waits in Lock.
C3_Witness ==
    \E c, d \in Calls : pc[c] = "running" /\ pc[d] = "lock"

\* C4 as stated: the lock is held only for the span of the subprocess
\* invocation, from runSSHKeygen to the exit of ssh-keygen.
C4_LockOnlyAroundSubprocess ==
    \A c \in Calls : sshKeygenLock = c => pc[c] \in {"keygen", "running"}

\* C4 amended: the lock is held for the whole of SignPublicKey, from its
\* first statement to its return; while a call prints its summary, waits at
\* its confirmation prompt, stages its temporary directory or runs
\* ssh-keygen, every other call is before Lock or has returned.
C4_LockHeldForWholeCall ==
    \A c \in Calls :
        /\ pc[c] \in InCall <=> sshKeygenLock = c
        /\ pc[c] \in InCall =>
              \A d \in Calls \ {c} : pc[d] \notin InCall

\* C4 witness: one call is blocked at its confirmation prompt, holding the
\* lock, and another call waits in Lock.
C4_Witness ==
    \E c, d \in Calls :
        /\ pc[c] = "reading"
        /\ stdin = <<>>
        /\ sshKeygenLock = c
        /\ pc[d] = "lock"

\* Call c went past confirmRequest.
PastConfirm(c) ==
    \/ pc[c] \in {"tempdir", "writekey", "keygen", "running", "readcert"}
    \/ pc[c] = "done" /\ signErr[c] # "ConfirmError"

\* C5: a Server built by makeLocalClient skips confirmation, so none of its
\* SignPublicKey calls prompts or reads operator input; a Server built by
\* ServerCmd.Run from the same key files without --skip-confirmation does
\* not skip it, and a call gets past confirmRequest only by reading a line.
C5_LocalSkipsConfirmation ==
    /\ (serverState = "Ready" /\ origin = "local") =>
          /\ SkipConfirmation
          /\ \A c \in Calls :
                pc[c] # "reading" /\ confirm[c] \in {"none", "skipped"}
    /\ (serverState = "Ready" /\ origin = "server" /\ ~skipFlag) =>
          /\ ~SkipConfirmation
          /\ \A c \in Calls : PastConfirm(c) => confirm[c] = "confirmed"

\* C5 witness: a call through a local client returned a certificate and the
\* operator typed nothing.
C5_Witness ==
    /\ origin = "local"
    /\ typed = 0
    /\ \E c \in Calls :
          signErr[c] = "nil" /\ confirm[c] = "skipped" /\ certificate[c]

\* C6: when the read of the confirmation meets end-of-stream before a line
\* terminator, SignPublicKey returns the error, having made no temporary
\* directory, started no ssh-keygen and set no certificate in the reply.
C6_EofAbortsSigning ==
    \A c \in Calls :
        confirm[c] = "eof" =>
            /\ pc[c] = "done"
            /\ signErr[c] = "ConfirmError"
            /\ ~staged[c]
            /\ ~tempDir[c]
            /\ ~launched[c]
            /\ ~certificate[c]

\* C6 witness: the operator typed something without a line terminator, the
\* input ended, and the call returned the confirmation error.
C6_Witness ==
    /\ typed > 0
    /\ stdinClosed
    /\ ~SkipConfirmation
    /\ \E c \in Calls : confirm[c] = "eof" /\ signErr[c] = "ConfirmError"

\* The flag combinations the precondition of MakeClient rules out: both
\* modes, neither mode, local mode without a private-key path.
InvalidFlags(r) ==
    \/ r[1] /\ r[2] # <<>>
    \/ ~r[1] /\ r[2] = <<>>
    \/ r[1] /\ r[3] = <<>>

\* C12: with an invalid flag combination MakeClient returns the validation
\* error having statted and read no key file, made no pipe, served nothing
\* and dialed nothing; otherwise it runs the local branch alone or the
\* remote branch alone.
C12_ValidateBeforeBranch ==
    clientErr # "none" =>
        IF InvalidFlags(rpcFlags)
        THEN /\ clientErr = "ValidateError"
             /\ effects = {}
             /\ newServerErr = "none"
             /\ serverState = "Uninitialized"
        ELSE /\ clientErr # "ValidateError"
             /\ IF rpcFlags[1]
                THEN "pipe" \in effects /\ "dial" \notin effects
                ELSE effects = {"dial"}

\* C12 witness: MakeClient refused local mode without a private-key path
\* and did nothing.
C12_Witness ==
    /\ clientErr = "ValidateError"
    /\ rpcFlags[1]
    /\ rpcFlags[2] = <<>>
    /\ rpcFlags[3] = <<>>
    /\ effects = {}

\* C16: on a Ready service the Server's PublicKey is the key read from the
\* public-key file at construction, with the bytes of that file, and its
\* PrivateKeyPath is the path it was given, whatever calls have run; every
\* GetCAPublicKey reply is that PublicKey.
C16_CAPublicKeyVerbatim ==
    serverState = "Ready" =>
        /\ PublicKey = NewPublicKey(publicKeyFile)[1]
        /\ DataOf(PublicKey) = publicKeyFile[2]
        /\ PrivateKeyPath = <<"ca">>
        /\ \A c \in Calls :
              method[c] = "GetCAPublicKey" => caReply[c] = PublicKey

\* C16 witness: GetCAPublicKey replied with the key, final line terminator
\* included, after an earlier SignPublicKey call had failed in ssh-keygen.
C16_Witness ==
    \E c, d \in Calls :
        /\ d < c
        /\ signErr[d] = "KeygenError"
        /\ pc[c] = "replied"
        /\ caReply[c] = PublicKey
        /\ DataOf(caReply[c]) = <<"x", SP, "B", NL>>

\* The three checks of construction on the files as they are: the private
\* key exists and is no directory, and the public key, at the path given or
\* else at the private-key path plus ".pub", can be read and parsed.
ChecksPass ==
    LET path == IF publicKeyPath = <<>> THEN <<"ca", ".pub">>
                ELSE publicKeyPath
        pub == IF path = <<"ca", ".pub">> THEN publicKeyFile
               ELSE <<FALSE, <<>>>>
    IN /\ privateKeyFile = "file"
       /\ pub[1]
       /\ ~Err(ParseAuthorizedKey(pub[2]))

\* C17: NewServer returns an error, and the service is not Ready and has no
\* key, unless the three checks pass; it returns no error when they do.
C17_NewServerChecks ==
    newServerErr # "none" =>
        /\ newServerErr = "nil" <=> ChecksPass
        /\ serverState = "Ready" => ChecksPass
        /\ ~ChecksPass => serverState = "Failed" /\ PublicKey = <<>>

\* C17 witness: NewServer refused a private-key path that is a directory
\* although the public key beside it is good.
C17_Witness ==
    /\ newServerErr = "IsDirError"
    /\ privateKeyFile = "dir"
    /\ publicKeyFile = <<TRUE, <<"x", SP, "B", NL>>>>
    /\ publicKeyPath = <<>>
    /\ serverState = "Failed"

C19_LockReleased ==
    /\ [](\A c \in Calls : pc[c] \notin InCall => sshKeygenLock # c)
    /\ \A d \in Calls :
          (pc[d] = "lock")
              ~> (pc[d] # "lock" \/ \E e \in Calls : pc[e] \in InCall)

\* C19 witness: a call returned an error and a later call holds the lock.
C19_Witness ==
    \E c, d \in Calls :
        /\ c < d
        /\ pc[c] = "done"
        /\ signErr[c] \in {"ConfirmError", "TempDirError", "KeygenError",
                            "CertError"}
        /\ sshKeygenLock = d

\* C20 as stated: in every SignPublicKey call the summary of the request
\* has been written before the confirmation is read or skipped, before the
\* temporary directory is made and before ssh-keygen is started.
C20_SummaryBeforeSideEffects ==
    \A c \in Calls :
        (confirm[c] # "none" \/ staged[c] \/ launched[c])
            => summary[c] = "summary"

CertificateRead(c) == <<"read", certPath(c)>> \in accesses

\* C33: once cmd.Run has returned an error in a call, because ssh-keygen
\* could not be started or because it exited non-zero, that call has
\* returned the signing failure, its reply carries no certificate and its
\* certificate file was not read; a certificate file is read, and a
\* certificate returned, only after cmd.Run returned nil.  What cmd.Run
\* returned in a call, and whether the call started ssh-keygen, never
\* changes afterwards: the subprocess is not run a second time.
C33_KeygenFailureIsFinal ==
    /\ [](\A c \in Calls :
            /\ runErr[c] \in {"LaunchError", "ExitError"}
                   => /\ pc[c] = "done"
                      /\ signErr[c] = "KeygenError"
                      /\ ~certificate[c]
                      /\ ~CertificateRead(c)
            /\ signErr[c] = "KeygenError"
                   => runErr[c] \in {"LaunchError", "ExitError"}
            /\ runErr[c] = "LaunchError"
                   <=> (runErr[c] # "none" /\ ~launched[c])
            /\ (certificate[c] \/ CertificateRead(c)) => runErr[c] = "nil")
    /\ [][\A c \in Calls :
              runErr[c] # "none"
                  => /\ runErr'[c] = runErr[c]
                     /\ launched'[c] = launched[c]
                     /\ pc'[c] \in {"readcert", "done"}]_vars

\* C33 witness: one call failed to start ssh-keygen and another saw it
\* exit non-zero; both returned the failure without a certificate.
C33_Witness ==
    \E c, d \in Calls :
        /\ runErr[c] = "LaunchError"
        /\ runErr[d] = "ExitError"
        /\ signErr[c] = "KeygenError"
        /\ signErr[d] = "KeygenError"
        /\ ~certificate[c]
        /\ ~certificate[d]

\* C34: the bytes written to the key file of a call are the bytes of the
\* key its client sent, and that file is the one named to ssh-keygen;
\* they are not the key of the CA nor the key another client sent.
C34_StagedKeyIsRequestKey ==
    \A c \in Calls :
        /\ keyFile[c] # <<>>
               => /\ keyFile[c] = DataOf(SentKey(c))
                  /\ PublicKey # <<>> /\ keyFile[c] # DataOf(PublicKey)
                  /\ \A d \in Calls \ {c} : keyFile[c] # DataOf(SentKey(d))
                  /\ <<"write", keyPath(c)>> \in accesses
        /\ (launched[c] \/ runErr[c] # "none")
               => /\ keyFile[c] # <<>>
                  /\ <<"arg", keyPath(c)>> \in accesses
        /\ \A d \in Calls \ {c} : keyPath(c) # keyPath(d)

\* C34 witness: ssh-keygen runs for one call on the key its client sent
\* while the request of another client, with another key, waits in Lock.
C34_Witness ==
    \E c, d \in Calls :
        /\ pc[c] = "running"
        /\ pc[d] = "lock"
        /\ keyFile[c] = DataOf(SentKey(c))
        /\ DataOf(request[d]) # keyFile[c]
        /\ DataOf(request[d]) = DataOf(SentKey(d))

\* The number of bytes a step takes from os.Stdin.
Consumed == Len(stdin) - Len(stdin')

\* C35: with confirmation enabled, a call that has gone past its prompt
\* (made its temporary directory, started ssh-keygen or returned) has read
\* a line or the end of os.Stdin, and ssh-keygen was started only after a
\* line; a call leaves the read of its prompt only in a step that takes a
\* line terminator from os.Stdin or meets its end, so that while nothing
\* is typed and the stream stays open the call stays there, holding the
\* lock, without returning.
C35_BlockedUntilInput ==
    /\ [](\A c \in Calls :
            /\ pc[c] \in {"tempdir", "writekey", "keygen", "running",
                          "readcert", "done"}
                   => /\ confirm[c] \in {"skipped", "confirmed", "eof"}
                      /\ confirm[c] = "skipped" <=> SkipConfirmation
            /\ (staged[c] \/ launched[c])
                   => confirm[c] \in {"skipped", "confirmed"}
            /\ pc[c] = "reading"
                   => /\ ~SkipConfirmation
                      /\ confirm[c] = "prompted"
                      /\ sshKeygenLock = c
                      /\ signErr[c] = "none"
                      /\ ~staged[c] /\ ~launched[c])
    /\ [][\A c \in Calls :
              (pc[c] = "reading" /\ pc'[c] # "reading")
                  => \/ \E i \in 1..Consumed : stdin[i] = NL
                     \/ stdin = <<>> /\ stdinClosed]_vars

\* C35 witness: a call waits at its prompt with nothing typed and the
\* stream open, while another request waits for the lock it holds.
C35_Witness ==
    \E c, d \in Calls :
        /\ pc[c] = "reading"
        /\ confirm[c] = "prompted"
        /\ stdin = <<>>
        /\ ~stdinClosed
        /\ typed = 0
        /\ sshKeygenLock = c
        /\ pc[d] = "lock"

\* C36 as stated: a step of the read of a confirmation takes from os.Stdin
\* no byte after the first line terminator it takes, so that what was
\* typed after the confirming line is still there for the next reader.
C36_OneLinePerConfirmation ==
    [][\A c \in Calls :
          (pc[c] = "reading" /\ Consumed > 0)
              => \A i \in 1..(Consumed - 1) : stdin[i] # NL]_vars

\* C40: a GetCAPublicKey request that reaches a serving Server can be
\* answered at once, whoever holds sshKeygenLock; the step that answers it
\* leaves the lock and every SignPublicKey call as they are, and replies
\* the key of the CA; no GetCAPublicKey call ever holds or waits for the
\* lock.
C40_GetCAPublicKeyTakesNoLock ==
    /\ [](\A c \in Calls :
            /\ (serverState = "Ready" /\ NextToArrive(c))
                   => ENABLED GetCAPublicKey(c)
            /\ method[c] = "GetCAPublicKey"
                   => /\ pc[c] = "replied"
                      /\ sshKeygenLock # c
                      /\ caReply[c] = PublicKey)
    /\ [][\A c \in Calls :
              (method[c] = "none" /\ method'[c] = "GetCAPublicKey")
                  => /\ sshKeygenLock' = sshKeygenLock
                     /\ pc'[c] = "replied"
                     /\ \A d \in Calls \ {c} : pc'[d] = pc[d]]_vars

\* C40 witness: a GetCAPublicKey call has been answered while an earlier
\* SignPublicKey call holds the lock, waiting at its prompt with nothing
\* typed or running ssh-keygen.
C40_Witness ==
    \E c, d \in Calls :
        /\ d < c
        /\ method[c] = "GetCAPublicKey"
        /\ pc[c] = "replied"
        /\ caReply[c] = PublicKey
        /\ sshKeygenLock = d
        /\ \/ pc[d] = "reading" /\ typed = 0 /\ ~stdinClosed
           \/ pc[d] = "running"

(***************************************************************************)
(* Package ca: the argument vector of ssh-keygen.  A string is the         *)
(* sequence of its bytes, a path the sequence of its elements, an          *)
(* argument vector a sequence of these.                                    *)
(***************************************************************************)
Identities == {<<>>, <<"i">>}
Principals == {<<"a">>, <<"b">>, <<"a", "b">>}

\* CertificateType: HostCertificate is true, UserCertificate false.
HostCertificate == TRUE
UserCertificate == FALSE

\* The SignArgs a request can carry, without its PublicKey.
SignArgsValues ==
    Identities \X {HostCertificate, UserCertificate}
        \X SeqsUpTo(Principals, MaxPrincipals)

CertificateTypeArgs_Always(ct) == <<<<"-", "h">>>>

\* func (ct CertificateType) Args() []string
CertificateTypeArgs(ct) ==
    IF ct = HostCertificate THEN <<<<"-", "h">>>> ELSE <<>>

\* func (args SignArgs) Args() []string
Args(args) ==
    <<<<"-", "I">>, args[1], <<"-", "n">>, Join(args[3], <<",">>)>>
        \o CertificateTypeArgs(args[2])

\* func (ca Server) getSSHKeygenArgs(args SignArgs, keyPath string)
getSSHKeygenArgs(privateKeyPath, args, path) ==
    Args(args) \o <<<<"-", "s">>, privateKeyPath, path>>

InitSignArgsValue ==
    /\ saIn \in SignArgsValues
    /\ saOut = <<>>

\* sshKeygenArgs := ca.getSSHKeygenArgs(args, keyPath), in some call of a
\* Server built on the private key "ca".
BuildSSHKeygenArgs ==
    /\ saOut = <<>>
    /\ \E c \in Calls : saOut' = getSSHKeygenArgs(<<"ca">>, saIn, keyPath(c))
    /\ UNCHANGED saIn
    /\ UNCHANGED <<modVars, caVars, pkVars, applyVars, signHostVars,
                   lookupVars, cmdVars>>

NextSignArgs == BuildSSHKeygenArgs

InitSignArgs ==
    /\ InitSignArgsValue
    /\ NoModifier /\ NoServer /\ NoPublicKey
    /\ NoApply /\ NoSignHost /\ NoLookup
    /\ NoCmd

SpecSignArgs == InitSignArgs /\ [][NextSignArgs]_vars

(***************************************************************************)
(* Properties of the argument vector (checked under SpecSignArgs).         *)
(***************************************************************************)
\* The parts of s between its commas.
RECURSIVE SplitCommas(_)
SplitCommas(s) ==
    IF \A i \in 1..Len(s) : s[i] # "," THEN <<s>>
    ELSE LET n == CHOOSE i \in 1..Len(s) :
                      /\ s[i] = ","
                      /\ \A j \in 1..(i - 1) : s[j] # ","
         IN <<SubSeq(s, 1, n - 1)>> \o SplitCommas(SubSeq(s, n + 1, Len(s)))

\* C27: the argument vector is "-I", the identity, "-n", the principals
\* joined by commas in the order and number of the request, "-h" exactly
\* for a host certificate, "-s", the CA private-key path and, last, the
\* path of the staged public key.
C27_ArgumentVector ==
    saOut # <<>>
        => LET host == saIn[2] = HostCertificate
               n == Len(saOut)
           IN /\ n = IF host THEN 8 ELSE 7
              /\ saOut[1] = <<"-", "I">>
              /\ saOut[2] = saIn[1]
              /\ saOut[3] = <<"-", "n">>
              /\ IF saIn[3] = <<>> THEN saOut[4] = <<>>
                 ELSE SplitCommas(saOut[4]) = saIn[3]
              /\ host => saOut[5] = <<"-", "h">>
              /\ saOut[n - 2] = <<"-", "s">>
              /\ saOut[n - 1] = <<"ca">>
              /\ \E c \in Calls : saOut[n] = keyPath(c)

\* C27 witness: the vector of a user certificate for the principal "a"
\* given twice: the principal is there twice and no "-h" is.
C27_Witness ==
    /\ saIn = <<<<"i">>, UserCertificate, <<<<"a">>, <<"a">>>>>>
    /\ saOut = <<<<"-", "I">>, <<"i">>, <<"-", "n">>, <<"a", ",", "a">>,
                 <<"-", "s">>, <<"ca">>, <<"tmp", 1, "key.pub">>>>

(***************************************************************************)
(* Package sshd: Lookup.  sshd -T prints the effective configuration, one  *)
(* "key value" line per setting, keys in lower case.                       *)
(***************************************************************************)
\* The keys asked for: lower-case and capitalized, and one that is not set.
LookupKeys == {<<"p">>, <<"P">>, <<"h">>, <<"H">>, <<"z">>}

\* Lines of the dump: a single-valued key, a key with two values, and a key
\* that begins with another (as hostkeyalgorithms begins with hostkey).
DumpLines ==
    {<<"p", SP, "1">>, <<"h", SP, "1">>, <<"h", SP, "2">>,
     <<"h", "x", SP, "1">>}

\* The standard output of sshd -T: every line ends in a line terminator.
DumpOutputs ==
    {Join([i \in 1..Len(ls) |-> ls[i] \o <<NL>>], <<>>) :
        ls \in SeqsUpTo(DumpLines, MaxDumpLines)}

\* checkedRun(exec.Command("sshd", "-T", "-f", configPath)): pairs
\* <<err, stdout>>; there is an error when sshd cannot be run or exits
\* non-zero, as it does on a file it rejects.
DumpResults == {<<TRUE, <<>>>>} \cup {<<FALSE, out>> : out \in DumpOutputs}

ToLower_Same(s) == s

\* strings.ToLower(key)
ToLower(s) ==
    [i \in 1..Len(s) |->
        IF s[i] = "P" THEN "p" ELSE IF s[i] = "H" THEN "h" ELSE s[i]]

\* lineRegexp.FindAllSubmatch(out, -1) for (?m)^<key> (.*)$, and the loop
\* over it: the bytes after "<key> " of every line that begins so.
FindAllSubmatch(key, out) ==
    LET re == QuoteMeta(key) \o <<SP>>
        found == SelectSeq(LinesOf(out), LAMBDA l : MatchesText(re, l))
    IN [i \in 1..Len(found) |->
           SubSeq(found[i], Len(key) + 2, Len(found[i]))]

\* func Lookup(configPath string, key string) ([]string, error), given
\* what checkedRun returned: <<err, values>>.
LookupResult(run, key) ==
    IF Err(run) THEN <<TRUE, <<>>>>
    ELSE <<FALSE, FindAllSubmatch(ToLower(key), Data(run))>>

InitLookupInput ==
    /\ luIn \in DumpResults \X LookupKeys
    /\ luOut = <<>>

Lookup ==
    /\ luOut = <<>>
    /\ luOut' = LookupResult(luIn[1], luIn[2])
    /\ UNCHANGED luIn
    /\ UNCHANGED <<modVars, caVars, pkVars, applyVars, signHostVars,
                   signArgsVars, cmdVars>>

NextLookup == Lookup

InitLookup ==
    /\ InitLookupInput
    /\ NoModifier /\ NoServer /\ NoPublicKey
    /\ NoApply /\ NoSignHost /\ NoSignArgs
    /\ NoCmd

SpecLookup == InitLookup /\ [][NextLookup]_vars

(***************************************************************************)
(* Properties of Lookup (checked under SpecLookup).                        *)
(***************************************************************************)
\* The key with its capitals in lower case.
FoldCase(k) ==
    [i \in 1..Len(k) |->
        CASE k[i] = "P" -> "p" [] k[i] = "H" -> "h" [] OTHER -> k[i]]

\* The values the dump gives for the lower-case key k, in order.
ValuesInDump(out, k) ==
    LET ls == SelectSeq(LinesOf(out),
                        LAMBDA l : l # <<>> /\ UpToSpace(l) = k)
    IN [i \in 1..Len(ls) |-> AfterSpace(ls[i])]

\* C28: Lookup returns an error exactly when the dump command returned
\* one; otherwise it returns, for a key in any case, every value the dump
\* gives for the key in lower case, in order, and the empty list when the
\* dump has no line for it.
C28_LookupFoldsCase ==
    luOut # <<>>
        => /\ Err(luOut) <=> Err(luIn[1])
           /\ ~Err(luIn[1])
                => Data(luOut) = ValuesInDump(Data(luIn[1]),
                                              FoldCase(luIn[2]))
           /\ luOut = LookupResult(luIn[1], FoldCase(luIn[2]))

\* C28 witness: the capitalized key "H" was looked up in a dump with two
\* lines for "h", and both values were returned.
C28_Witness ==
    /\ luIn = <<<<FALSE, <<"h", SP, "1", NL, "h", SP, "2", NL>>>>, <<"H">>>>
    /\ luOut = <<FALSE, <<<<"1">>, <<"2">>>>>>

(***************************************************************************)
(* Package main: TrustCmd.trustAsUserCA, on a Modifier of its own for the  *)
(* sshd configuration.                                                     *)
(***************************************************************************)
TrustFrame ==
    UNCHANGED <<caVars, pkVars, applyVars, signHostVars, signArgsVars,
                lookupVars, validateVars>>

\* err := appendIfNotPresent("/etc/ssh/trusted_cas", publicKey.Marshal());
\* if err != nil { return ... }
TrustAppend ==
    /\ trPc = "start"
    /\ \E failed \in BOOLEAN :
          IF failed
          THEN /\ trErr' = "AppendError"
               /\ trRet' = "AppendError"
               /\ trPc' = "done"
          ELSE /\ trErr' = "nil"
               /\ trPc' = "set"
               /\ UNCHANGED trRet
    /\ UNCHANGED trPrinted
    /\ UNCHANGED modVars
    /\ TrustFrame

\* sshdConfig := sshd.Modifier{ConfigPath: "/etc/ssh/sshd_config"};
\* sshdConfig.SetUnique("TrustedUserCAKeys", "/etc/ssh/trusted_cas")
TrustSetUnique ==
    /\ trPc = "set"
    /\ \E key \in Keys, value \in Values :
          modifications' =
              Append(modifications, SetUniqueModification(key, value))
    /\ trPc' = "commit"
    /\ UNCHANGED <<file, writable, commits, ret, original, pending, nWrites,
                   nTests, sshdRun>>
    /\ UNCHANGED <<trErr, trRet, trPrinted>>
    /\ TrustFrame

\* The variable err after the statement "sshdConfig.Commit()": the error
\* Commit returns is assigned to nothing, err keeps the value
\* appendIfNotPresent gave it.
ErrAfterCommit(err, commitErr) == err

\* sshdConfig.Commit()
TrustCommit ==
    /\ trPc = "commit"
    /\ \E res \in CommitResults(file, modifications, writable) :
          /\ ret' = res[1]
          /\ file' = res[2]
          /\ modifications' = res[3]
          /\ nWrites' = res[4]
          /\ nTests' = res[5]
          /\ sshdRun' = res[6]
          /\ trErr' = ErrAfterCommit(trErr, res[1])
    /\ original' = file
    /\ pending' = modifications
    /\ commits' = commits + 1
    /\ trPc' = "check"
    /\ UNCHANGED writable
    /\ UNCHANGED <<trRet, trPrinted>>
    /\ TrustFrame

\* if err != nil { return fmt.Errorf("unable set TrustedUserCAKeys ...") };
\* fmt.Printf("trusted public key ... for user authentication"); return nil
TrustReturn ==
    /\ trPc = "check"
    /\ IF trErr # "nil"
       THEN /\ trRet' = "CommitError"
            /\ UNCHANGED trPrinted
       ELSE /\ trPrinted' = TRUE
            /\ trRet' = "nil"
    /\ trPc' = "done"
    /\ UNCHANGED trErr
    /\ UNCHANGED modVars
    /\ TrustFrame

NextTrust == TrustAppend \/ TrustSetUnique \/ TrustCommit \/ TrustReturn

\* The sshd configuration before the command, and nothing done yet.
InitTrust ==
    /\ InitModifier
    /\ trPc = "start"

SpecTrust == InitTrust /\ [][NextTrust]_vars

(***************************************************************************)
(* Properties of trustAsUserCA (checked under SpecTrust).                  *)
(***************************************************************************)
\* C37 as stated: when the Commit of trustAsUserCA returned an error, the
\* command returns an error and has not printed that the key is trusted
\* for user authentication.
C37_CommitFailureReported ==
    (trPc = "done" /\ ret \notin {"none", "nil"})
        => /\ trRet # "nil"
           /\ ~trPrinted

(***************************************************************************)
(* Package sshd: Commit from its first write on, for a Modifier whose      *)
(* ConfigPath is or is not the file sshd reads by default, with the        *)
(* verdict of sshd -t decided by the file sshd reads.                      *)
(***************************************************************************)
\* sshd(8): the configuration file read when no -f option is given.
DefaultConfigPath == <<"etc", "ssh", "sshd_config">>

\* The paths a Modifier is made for: the default one (trustAsUserCA) and
\* a file of its own (the tests).
ConfigPaths == {DefaultConfigPath, <<"tmp", "sshd_config">>}

\* What sshd -t makes of a configuration: it accepts it, exits non-zero,
\* or exits 0 with one of the messages of hostkeyFailCases.
ConfigKinds == {"ok", "invalid", "hostkey1", "hostkey2"}

\* checkedRun of sshd -t on a configuration of that kind.
SshdTest(kind) ==
    IF kind = "invalid" THEN <<TRUE, {}>>
    ELSE IF kind = "hostkey1" THEN <<FALSE, {1}>>
    ELSE IF kind = "hostkey2" THEN <<FALSE, {2}>>
    ELSE <<FALSE, {}>>

\* exec.Command("sshd", "-t"): the arguments testConfig gives sshd.
testConfigArgs(configPath) == <<<<"-t">>>>

\* The configuration file sshd reads, given its arguments: the one after
\* -f, or the default one.
ConfigFileOf(args) ==
    IF \E i \in 1..(Len(args) - 1) : args[i] = <<"-f">>
    THEN args[(CHOOSE i \in 1..(Len(args) - 1) : args[i] = <<"-f">>) + 1]
    ELSE DefaultConfigPath

ValidateFrame ==
    UNCHANGED <<modVars, caVars, pkVars, applyVars, signHostVars,
                signArgsVars, lookupVars, trustVars>>

\* A Modifier for one of the paths; each file is of one of the kinds.
InitValidateInput ==
    /\ tcConfigPath \in ConfigPaths
    /\ tcFiles \in [ConfigPaths -> ConfigKinds]
    /\ tcPc = "write"
    /\ tcOriginal = "none"
    /\ tcRead = <<>>
    /\ tcRet = "none"

\* err = ioutil.WriteFile(s.ConfigPath, final, 0644), final being of any
\* kind; if err != nil { return ... }
CommitWrite ==
    /\ tcPc = "write"
    /\ tcOriginal' = tcFiles[tcConfigPath]
    /\ \E err \in BOOLEAN, kind \in ConfigKinds :
          IF err
          THEN /\ tcRet' = "WriteError"
               /\ tcPc' = "done"
               /\ UNCHANGED tcFiles
          ELSE /\ tcFiles' = [tcFiles EXCEPT ![tcConfigPath] = kind]
               /\ tcPc' = "test"
               /\ UNCHANGED tcRet
    /\ UNCHANGED <<tcConfigPath, tcRead>>
    /\ ValidateFrame

\* err = s.testConfig(); on nil: s.modifications = nil; return nil
CommitTest ==
    /\ tcPc = "test"
    /\ LET read == ConfigFileOf(testConfigArgs(tcConfigPath))
       IN /\ tcRead' = read
          /\ IF testConfig(SshdTest(tcFiles[read]))
             THEN /\ tcPc' = "revert"
                  /\ UNCHANGED tcRet
             ELSE /\ tcPc' = "done"
                  /\ tcRet' = "nil"
    /\ UNCHANGED <<tcConfigPath, tcFiles, tcOriginal>>
    /\ ValidateFrame

\* err := ioutil.WriteFile(s.ConfigPath, original, 0644) and the return
\* of the cause, with or without the failure of the revert.
CommitRevert ==
    /\ tcPc = "revert"
    /\ \E err \in BOOLEAN :
          /\ tcRet' = VerificationError(err)
          /\ IF err
             THEN UNCHANGED tcFiles
             ELSE tcFiles' = [tcFiles EXCEPT ![tcConfigPath] = tcOriginal]
    /\ tcPc' = "done"
    /\ UNCHANGED <<tcConfigPath, tcOriginal, tcRead>>
    /\ ValidateFrame

NextValidate == CommitWrite \/ CommitTest \/ CommitRevert

InitValidate ==
    /\ InitValidateInput
    /\ NoModifier /\ NoServer /\ NoPublicKey
    /\ NoApply /\ NoSignHost /\ NoSignArgs /\ NoLookup
    /\ NoTrust

SpecValidate == InitValidate /\ [][NextValidate]_vars

(***************************************************************************)
(* Properties of the verification (checked under SpecValidate).            *)
(***************************************************************************)
\* C38 as stated: the file sshd -t reads is the file at ConfigPath, and
\* when Commit returns nil after its write the content it wrote to
\* ConfigPath is one sshd accepts.
C38_ValidatorReadsConfigPath ==
    /\ tcRead # <<>> => tcRead = tcConfigPath
    /\ (tcPc = "done" /\ tcRet = "nil") => tcFiles[tcConfigPath] = "ok"

=============================================================================
